---- MODULE Spec2Model ----
(***************************************************************************)
(* A model of the isr profile library: the canonical type/symbol model     *)
(* (isr-core), the resolution engine (isr-core Profile, isr-macros         *)
(* ProfileExt and the Field/Bitfield descriptors) and the DWARF type       *)
(* normalizer (isr-dwarf).                                                 *)
(***************************************************************************)
EXTENDS Integers, Sequences, FiniteSets, TLC

VARIABLES
    profile,    \* the Profile being queried (NoProfile before construction)
    op,         \* the query in progress or last completed
    stack,      \* call stack of find_field_descriptor activations
    outcome,    \* result of the last completed query
    converted,  \* result of IntoField::into_field on the last outcome
    bitfield,   \* the Bitfield descriptor value_from is called on
    raw,        \* the raw u64 handed to value_from
    overflow_checks,    \* whether the build checks arithmetic overflow
    extracted,  \* result of Bitfield::value_from
    dwarf_units,    \* per build: the compilation units in iteration order
    unit_idx,       \* per build: the number of units ingested
    dwarf_types,    \* per build: the Types under construction
    dwarf_cache,    \* per build: the DwarfCache of declaration sites
    reingested,     \* per build: the number of units ingested a second time
    tpi,            \* the type records of the PDB, in TypeIndex order
    type_iter,      \* the number of type records Types::parse has consumed
    pdb_types,      \* the Types the PDB normalizer is building
    systemmap,      \* the text of the System.map handed to the parser
    parsed,         \* result of SystemMapSymbols::parse
    source,         \* the debug information create_profile is run on
    pc,             \* the step create_profile has reached
    written,        \* the profiles the serialization callback has received
    created,        \* result of create_profile
    declared,       \* the members declared in a symbols! or offsets! struct
    generated,      \* result of the generated new()
    isr_cache,      \* the files of one key in the IsrCache directory
    callers         \* per caller: the step of its entry_from_* call, its result

resolveVars == <<profile, op, stack, outcome, converted>>
bitsVars == <<bitfield, raw, overflow_checks, extracted>>
dwarfVars == <<dwarf_units, unit_idx, dwarf_types, dwarf_cache, reingested>>
pdbVars == <<tpi, type_iter, pdb_types>>
mapVars == <<systemmap, parsed>>
createVars == <<source, pc, written, created>>
macroVars == <<declared, generated>>
cacheVars == <<isr_cache, callers>>

\* What the actions of one component leave alone.
notResolve == <<bitsVars, dwarfVars, pdbVars, mapVars, createVars, macroVars, cacheVars>>
notBits == <<resolveVars, dwarfVars, pdbVars, mapVars, createVars, macroVars, cacheVars>>
notDwarf == <<resolveVars, bitsVars, pdbVars, mapVars, createVars, macroVars, cacheVars>>
notPdb == <<resolveVars, bitsVars, dwarfVars, mapVars, createVars, macroVars, cacheVars>>
notMap == <<resolveVars, bitsVars, dwarfVars, pdbVars, createVars, macroVars, cacheVars>>
notCreate ==
    <<resolveVars, bitsVars, dwarfVars, pdbVars, mapVars, macroVars, cacheVars>>
notMacro == <<bitsVars, dwarfVars, pdbVars, mapVars, createVars, cacheVars>>
notCache ==
    <<resolveVars, bitsVars, dwarfVars, pdbVars, mapVars, createVars, macroVars>>

-----------------------------------------------------------------------------
(* Bounds of the model.                                                    *)

\* Largest number of fields of the outermost struct of a generated profile.
MaxFields == 2

\* Number of find_field_descriptor activations the thread's stack can hold.
MaxDepth == 4

\* Largest number of members of a struct declared with symbols! or offsets!.
MaxMembersDeclared == 2

\* Largest number of wrappers (array, pointer, bitfield) around a type.
MaxTypeDepth == 1

-----------------------------------------------------------------------------
(* isr-core/src/types.rs: the Type tagged union.                           *)

Base(subkind) == [kind |-> "Base", subkind |-> subkind]
EnumRef(name) == [kind |-> "Enum", name |-> name]
StructRef(name) == [kind |-> "Struct", name |-> name]
ArrayRef(subtype, dims, size) ==
    [kind |-> "Array", subtype |-> subtype, dims |-> dims, size |-> size]
PointerRef(subtype) == [kind |-> "Pointer", subtype |-> subtype]
BitfieldRef(subtype, bit_length, bit_position) ==
    [kind |-> "Bitfield", subtype |-> subtype,
     bit_length |-> bit_length, bit_position |-> bit_position]
Function == [kind |-> "Function"]

BaseRef ==
    {"Void", "Bool", "Char", "Wchar",
     "I8", "I16", "I32", "I64", "I128",
     "U8", "U16", "U32", "U64", "U128",
     "F8", "F16", "F32", "F64", "F128"}

\* A struct field and a struct; `fields` is the IndexMap as the sequence of
\* its entries in insertion order, keys (names) pairwise distinct.
Field(name, offset, type_) == [name |-> name, offset |-> offset, type_ |-> type_]
Struct(kind, size, fields) == [kind |-> kind, size |-> size, fields |-> fields]
Enum(subtype, fields) == [subtype |-> subtype, fields |-> fields]

\* IndexMap::get on a field map.
HasField(udt, field_name) ==
    \E i \in 1..Len(udt.fields) : udt.fields[i].name = field_name
GetField(udt, field_name) ==
    udt.fields[CHOOSE i \in 1..Len(udt.fields) : udt.fields[i].name = field_name]

-----------------------------------------------------------------------------
(* Option / Result values.                                                 *)

Some(v) == [tag |-> "Some", value |-> v]
None == [tag |-> "None"]
Ok(v) == [tag |-> "Ok", value |-> v]
Err(e) == [tag |-> "Err", error |-> e]
\* The thread unwinds with a panic / dies of stack exhaustion.
Panic == [tag |-> "Panic"]
StackOverflow == [tag |-> "StackOverflow"]
\* No query has completed.
Pending == [tag |-> "Pending"]

\* isr-macros/src/error.rs
Conversion(msg) == [kind |-> "Conversion", msg |-> msg]
symbol_not_found(symbol_name) == [kind |-> "SymbolNotFound", symbol_name |-> symbol_name]
type_not_found(type_name) == [kind |-> "TypeNotFound", type_name |-> type_name]
field_not_found(type_name, field_name) ==
    [kind |-> "FieldNotFound", type_name |-> type_name, field_name |-> field_name]

\* isr-macros/src/offsets.rs: the descriptors.
FieldDesc(offset, size) == [kind |-> "Field", offset |-> offset, size |-> size]
BitfieldDesc(offset, size, bit_position, bit_length) ==
    [kind |-> "Bitfield", offset |-> offset, size |-> size,
     bit_position |-> bit_position, bit_length |-> bit_length]

-----------------------------------------------------------------------------
(* isr-core/src/profile.rs: Profile and the size queries.                  *)

NoProfile == [architecture |-> "<none>"]

ProfileNew(architecture, symbols, types) ==
    [architecture |-> architecture, symbols |-> symbols,
     enums |-> types.enums, structs |-> types.structs]

base_size(base) ==
    CASE base = "Void" -> 0
      [] base \in {"Bool", "Char", "I8", "U8", "F8"} -> 1
      [] base \in {"Wchar", "I16", "U16", "F16"} -> 2
      [] base \in {"I32", "U32", "F32"} -> 4
      [] base \in {"I64", "U64", "F64"} -> 8
      [] base \in {"I128", "U128", "F128"} -> 16

\* pointer_size with 32-bit Arm taken for a 64-bit architecture.
pointer_size_arm64(p) ==
    CASE p.architecture \in {"X86"} -> Some(4)
      [] p.architecture \in {"Amd64", "Arm64", "Arm"} -> Some(8)
      [] OTHER -> Panic

\* Some(n), or Panic for panic!("unsupported architecture").
pointer_size(p) ==
    CASE p.architecture \in {"X86", "Arm"} -> Some(4)
      [] p.architecture \in {"Amd64", "Arm64"} -> Some(8)
      [] OTHER -> Panic

struct_size(p, name) ==
    IF name \in DOMAIN p.structs THEN Some(p.structs[name].size) ELSE None

RECURSIVE type_size(_, _)
enum_size(p, name) ==
    IF name \in DOMAIN p.enums THEN type_size(p, p.enums[name].subtype) ELSE None

\* type_size with an array sized as its whole span, element size times count.
type_size_array_span(p, type_) ==
    CASE type_.kind = "Base" -> Some(base_size(type_.subkind))
      [] type_.kind = "Enum" -> enum_size(p, type_.name)
      [] type_.kind = "Struct" -> struct_size(p, type_.name)
      [] type_.kind = "Array" ->
            LET element == type_size(p, type_.subtype) IN
            IF element.tag = "Some" THEN Some(element.value * type_.size) ELSE element
      [] type_.kind = "Pointer" -> pointer_size(p)
      [] type_.kind = "Bitfield" -> type_size(p, type_.subtype)
      [] type_.kind = "Function" -> pointer_size(p)

type_size(p, type_) ==
    CASE type_.kind = "Base" -> Some(base_size(type_.subkind))
      [] type_.kind = "Enum" -> enum_size(p, type_.name)
      [] type_.kind = "Struct" -> struct_size(p, type_.name)
      [] type_.kind = "Array" -> type_size(p, type_.subtype)
      [] type_.kind = "Pointer" -> pointer_size(p)
      [] type_.kind = "Bitfield" -> type_size(p, type_.subtype)
      [] type_.kind = "Function" -> pointer_size(p)

find_symbol(p, symbol_name) ==
    IF symbol_name \in DOMAIN p.symbols THEN Some(p.symbols[symbol_name]) ELSE None

find_enum(p, type_name) ==
    IF type_name \in DOMAIN p.enums THEN Some(p.enums[type_name]) ELSE None

find_struct(p, type_name) ==
    IF type_name \in DOMAIN p.structs THEN Some(p.structs[type_name]) ELSE None

-----------------------------------------------------------------------------
(* isr-macros/src/profile.rs: ProfileExt.                                  *)

find_symbol_descriptor(p, symbol_name) ==
    LET found == find_symbol(p, symbol_name) IN
    IF found.tag = "Some"
    THEN Ok([offset |-> found.value])
    ELSE Err(symbol_not_found(symbol_name))

\* DirectDescriptor with the bit position and bit length exchanged.
DirectDescriptorSwapped(p, type_name, field_name, field) ==
    LET size == type_size(p, field.type_) IN
    CASE size.tag = "Panic" -> Panic
      [] size.tag = "None" -> Err(field_not_found(type_name, field_name))
      [] size.tag = "Some" /\ field.type_.kind = "Bitfield" ->
            Ok(BitfieldDesc(field.offset, size.value,
                            field.type_.bit_length, field.type_.bit_position))
      [] OTHER -> Ok(FieldDesc(field.offset, size.value))

\* Lines 98-123: the descriptor of a field the struct owns directly.
DirectDescriptor(p, type_name, field_name, field) ==
    LET size == type_size(p, field.type_) IN
    CASE size.tag = "Panic" -> Panic
      [] size.tag = "None" -> Err(field_not_found(type_name, field_name))
      [] size.tag = "Some" /\ field.type_.kind = "Bitfield" ->
            Ok(BitfieldDesc(field.offset, size.value,
                            field.type_.bit_position, field.type_.bit_length))
      [] OTHER -> Ok(FieldDesc(field.offset, size.value))

\* NestedDescriptor without the embedding field's offset.
NestedDescriptorNoRebase(field, child) == child

\* Lines 132-145: the child's descriptor rebased on the embedding field.
NestedDescriptor(field, child) ==
    IF child.kind = "Field"
    THEN FieldDesc(field.offset + child.offset, child.size)
    ELSE BitfieldDesc(field.offset + child.offset, child.size,
                      child.bit_position, child.bit_length)

\* One activation of find_field_descriptor. pc: "entry" before line 93,
\* "loop" at the head of the for loop (line 125) about to visit fields[idx],
\* "call" while the recursive call of line 131 for fields[idx] is running,
\* "ret" when returning `ret` to the caller.
Frame(type_name, field_name) ==
    [type_name |-> type_name, field_name |-> field_name,
     pc |-> "entry", idx |-> 0, ret |-> Pending]

Top == stack[Len(stack)]
SetTop(frame) == [stack EXCEPT ![Len(stack)] = frame]
Returning(frame, value) == [frame EXCEPT !.pc = "ret", !.ret = value]

\* NextStructField visiting the Struct-typed fields from the last to the
\* first: the last such field, and none after it.
NextStructFieldLast(udt, from) ==
    LET hits == {i \in from..Len(udt.fields) : udt.fields[i].type_.kind = "Struct"} IN
    IF hits = {} THEN 0 ELSE CHOOSE i \in hits : \A j \in hits : i >= j

\* The first index >= from of a field whose type is directly a Struct
\* reference (the others `continue`), or 0 when there is none.
NextStructField(udt, from) ==
    LET hits == {i \in from..Len(udt.fields) : udt.fields[i].type_.kind = "Struct"} IN
    IF hits = {} THEN 0 ELSE CHOOSE i \in hits : \A j \in hits : i <= j

\* No query is running and none has run since the last result was dropped.
Idle == stack = <<>> /\ op.name = "none"
\* A query has completed and its result is held by the caller.
Done == stack = <<>> /\ op.name /= "none"

\* A caller invokes profile.find_field_descriptor(type_name, field_name).
FindFieldDescriptor(type_name, field_name) ==
    /\ Idle
    /\ profile /= NoProfile
    /\ op' = [name |-> "find_field_descriptor",
              type_name |-> type_name, field_name |-> field_name]
    /\ stack' = <<Frame(type_name, field_name)>>
    /\ outcome' = Pending
    /\ converted' = Pending
    /\ UNCHANGED profile
    /\ UNCHANGED notResolve

\* Lines 93-123: struct lookup and the directly owned field.
FfdEntry ==
    /\ stack /= <<>>
    /\ Top.pc = "entry"
    /\ LET f == Top
           udt == find_struct(profile, f.type_name)
       IN  stack' =
             IF udt.tag = "None"
             THEN SetTop(Returning(f, Err(type_not_found(f.type_name))))
             ELSE IF HasField(udt.value, f.field_name)
             THEN SetTop(Returning(f,
                    DirectDescriptor(profile, f.type_name, f.field_name,
                                     GetField(udt.value, f.field_name))))
             ELSE SetTop([f EXCEPT !.pc = "loop", !.idx = 1])
    /\ UNCHANGED <<profile, op, outcome, converted>>
    /\ UNCHANGED notResolve

\* FfdLoop with a bound on the depth of the recursion: at the bound the
\* activation gives up with field-not-found.
FfdLoopGuarded ==
    /\ stack /= <<>>
    /\ Top.pc = "loop"
    /\ LET f == Top
           udt == profile.structs[f.type_name]
           i == NextStructField(udt, f.idx)
       IN  IF i = 0 \/ Len(stack) >= MaxDepth
           THEN stack' = SetTop(Returning(f,
                            Err(field_not_found(f.type_name, f.field_name))))
           ELSE stack' = Append(SetTop([f EXCEPT !.pc = "call", !.idx = i]),
                                Frame(udt.fields[i].type_.name, f.field_name))
    /\ UNCHANGED <<profile, op, outcome, converted>>
    /\ UNCHANGED notResolve

\* Lines 125-131 and 149: advance to the next Struct-typed field and recurse
\* into it, or fall out of the loop with field-not-found. The recursion needs
\* a stack frame; with the stack exhausted the thread dies.
FfdLoop ==
    /\ stack /= <<>>
    /\ Top.pc = "loop"
    /\ LET f == Top
           udt == profile.structs[f.type_name]
           i == NextStructField(udt, f.idx)
       IN  IF i = 0
           THEN /\ stack' = SetTop(Returning(f,
                               Err(field_not_found(f.type_name, f.field_name))))
                /\ UNCHANGED outcome
           ELSE IF Len(stack) >= MaxDepth
           THEN /\ stack' = <<>>
                /\ outcome' = StackOverflow
           ELSE /\ stack' = Append(SetTop([f EXCEPT !.pc = "call", !.idx = i]),
                                   Frame(udt.fields[i].type_.name, f.field_name))
                /\ UNCHANGED outcome
    /\ UNCHANGED <<profile, op, converted>>
    /\ UNCHANGED notResolve

\* FfdReturn with the child's error propagated (`?`) instead of the loop going on.
FfdReturnPropagating ==
    /\ stack /= <<>>
    /\ Top.pc = "ret"
    /\ LET value == Top.ret
           rest == SubSeq(stack, 1, Len(stack) - 1)
       IN  IF rest = <<>> \/ value.tag = "Panic"
           THEN /\ stack' = <<>>
                /\ outcome' = value
           ELSE LET caller == rest[Len(rest)]
                    field == profile.structs[caller.type_name].fields[caller.idx]
                IN  /\ stack' =
                         [rest EXCEPT ![Len(rest)] =
                            IF value.tag = "Ok"
                            THEN Returning(caller, Ok(NestedDescriptor(field, value.value)))
                            ELSE Returning(caller, value)]
                    /\ UNCHANGED outcome
    /\ UNCHANGED <<profile, op, converted>>
    /\ UNCHANGED notResolve

\* Lines 131-146: the activation returns; the caller rebases an Ok child and
\* returns it, or continues the loop after an Err. A panic unwinds the thread.
FfdReturn ==
    /\ stack /= <<>>
    /\ Top.pc = "ret"
    /\ LET value == Top.ret
           rest == SubSeq(stack, 1, Len(stack) - 1)
       IN  IF rest = <<>> \/ value.tag = "Panic"
           THEN /\ stack' = <<>>
                /\ outcome' = value
           ELSE LET caller == rest[Len(rest)]
                    field == profile.structs[caller.type_name].fields[caller.idx]
                IN  /\ stack' =
                         [rest EXCEPT ![Len(rest)] =
                            IF value.tag = "Ok"
                            THEN Returning(caller, Ok(NestedDescriptor(field, value.value)))
                            ELSE [caller EXCEPT !.pc = "loop", !.idx = caller.idx + 1]]
                    /\ UNCHANGED outcome
    /\ UNCHANGED <<profile, op, converted>>
    /\ UNCHANGED notResolve

-----------------------------------------------------------------------------
(* isr-core/src/profile.rs, isr-macros/src/profile.rs: the lookups that    *)
(* complete in one call.                                                   *)

Lookup(name, arg, result) ==
    /\ Idle
    /\ profile /= NoProfile
    /\ op' = [name |-> name, arg |-> arg]
    /\ outcome' = result
    /\ converted' = Pending
    /\ UNCHANGED <<profile, stack>>
    /\ UNCHANGED notResolve

FindSymbol(symbol_name) ==
    Lookup("find_symbol", symbol_name, find_symbol(profile, symbol_name))
FindSymbolDescriptor(symbol_name) ==
    Lookup("find_symbol_descriptor", symbol_name,
           find_symbol_descriptor(profile, symbol_name))
FindEnum(type_name) ==
    Lookup("find_enum", type_name, find_enum(profile, type_name))
FindStruct(type_name) ==
    Lookup("find_struct", type_name, find_struct(profile, type_name))
EnumSize(name) ==
    Lookup("enum_size", name, enum_size(profile, name))
StructSize(name) ==
    Lookup("struct_size", name, struct_size(profile, name))
TypeSize(type_) ==
    Lookup("type_size", type_, type_size(profile, type_))
PointerSize ==
    Lookup("pointer_size", "", pointer_size(profile))

-----------------------------------------------------------------------------
(* isr-macros/src/offsets.rs: conversions of a field descriptor.           *)

\* TryFrom<FieldDescriptor> for u64 / Field / Bitfield.
TryFromDescriptor(target, descriptor) ==
    CASE target = "u64" -> Ok(descriptor.offset)
      [] target = "Field" ->
            IF descriptor.kind = "Field"
            THEN Ok(descriptor)
            ELSE Err(Conversion("expected field, found bitfield"))
      [] target = "Bitfield" ->
            IF descriptor.kind = "Bitfield"
            THEN Ok(descriptor)
            ELSE Err(Conversion("expected bitfield, found field"))

\* IntoField<T> for Result<FieldDescriptor, Error>: `self?.try_into()`.
IntoFieldPlain(target, result) ==
    IF result.tag = "Ok" THEN TryFromDescriptor(target, result.value) ELSE result

\* IntoFieldOption with a failed conversion dropped: `d.try_into().ok()`.
IntoFieldOptionLenient(target, result) ==
    IF result.tag = "Ok"
    THEN LET r == TryFromDescriptor(target, result.value) IN
         IF r.tag = "Ok" THEN Ok(Some(r.value)) ELSE Ok(None)
    ELSE Ok(None)

\* IntoField<Option<T>>: Ok(d) => Ok(Some(d.try_into()?)), Err(_) => Ok(None).
IntoFieldOption(target, result) ==
    IF result.tag = "Ok"
    THEN LET r == TryFromDescriptor(target, result.value) IN
         IF r.tag = "Ok" THEN Ok(Some(r.value)) ELSE r
    ELSE Ok(None)

ConversionTargets == {"u64", "Field", "Bitfield"}

\* The generated code converts the result of find_field_descriptor into the
\* declared member type.
IntoField(target, optional) ==
    /\ Done
    /\ op.name = "find_field_descriptor"
    /\ outcome.tag \in {"Ok", "Err"}
    /\ converted = Pending
    /\ converted' = [target |-> target, optional |-> optional,
                     result |-> IF optional
                                THEN IntoFieldOption(target, outcome)
                                ELSE IntoFieldPlain(target, outcome)]
    /\ UNCHANGED <<profile, op, stack, outcome>>
    /\ UNCHANGED notResolve

\* The caller drops the result; the profile, immutable, can be queried again.
Discard ==
    /\ Done
    /\ op' = [name |-> "none"]
    /\ outcome' = Pending
    /\ converted' = Pending
    /\ UNCHANGED <<profile, stack>>
    /\ UNCHANGED notResolve

-----------------------------------------------------------------------------
(* isr-macros/src/symbols.rs, isr-macros/src/offsets.rs: the structs that  *)
(* symbols! and offsets! generate, and their new().                        *)

\* isr-macros/src/profile.rs lines 88-150: find_field_descriptor as one call
\* running with `depth` activations on the stack. Ok(descriptor), Err(error),
\* or Panic / StackOverflow when the thread does not return.
RECURSIVE find_field_descriptor_at(_, _, _, _)
RECURSIVE search_fields(_, _, _, _, _)
search_fields(p, type_name, field_name, from, depth) ==
    LET udt == p.structs[type_name]
        i == NextStructField(udt, from)
    IN  IF i = 0
        THEN Err(field_not_found(type_name, field_name))
        ELSE IF depth >= MaxDepth
        THEN StackOverflow
        ELSE LET child == find_field_descriptor_at(p, udt.fields[i].type_.name,
                                                   field_name, depth + 1)
             IN  CASE child.tag = "Ok" ->
                        Ok(NestedDescriptor(udt.fields[i], child.value))
                   [] child.tag = "Err" ->
                        search_fields(p, type_name, field_name, i + 1, depth)
                   [] OTHER -> child

find_field_descriptor_at(p, type_name, field_name, depth) ==
    LET udt == find_struct(p, type_name) IN
    IF udt.tag = "None"
    THEN Err(type_not_found(type_name))
    ELSE IF HasField(udt.value, field_name)
    THEN DirectDescriptor(p, type_name, field_name,
                          GetField(udt.value, field_name))
    ELSE search_fields(p, type_name, field_name, 1, depth)

find_field_descriptor(p, type_name, field_name) ==
    find_field_descriptor_at(p, type_name, field_name, 1)

\* The attribute forms of a member: none, #[isr(alias = ...)] and
\* #[isr(override = ...)], a single literal being a list of one.
NoAttr == [form |-> "none", names |-> <<>>]
Alias(names) == [form |-> "alias", names |-> names]
Override(names) == [form |-> "override", names |-> names]

\* symbols.rs lines 153-218, symbols! @assign: the member's own name and then
\* each alias, `.or_else` running the next lookup only on Err; with an
\* override the chain starts from Err(symbol_not_found(fname)) and the own
\* name is not looked up.
symbols_assign(p, fname, isr_attr) ==
    LET RECURSIVE or_else(_, _)
        or_else(result, names) ==
            IF result.tag = "Ok" \/ names = <<>>
            THEN result
            ELSE or_else(find_symbol_descriptor(p, Head(names)), Tail(names))
    IN  IF isr_attr.form = "override"
        THEN or_else(Err(symbol_not_found(fname)), isr_attr.names)
        ELSE or_else(find_symbol_descriptor(p, fname), isr_attr.names)

\* symbols.rs lines 28-45, IntoSymbol<u64> and IntoSymbol<Option<u64>>.
into_symbol(optional, result) ==
    IF optional
    THEN IF result.tag = "Ok" THEN Ok(Some(result.value.offset)) ELSE Ok(None)
    ELSE IF result.tag = "Ok" THEN Ok(result.value.offset) ELSE result

\* symbols.rs lines 137-149, new(): the members in declaration order, the
\* first Err returned by `?`.
RECURSIVE symbols_new_from(_, _, _)
symbols_new_from(p, members, values) ==
    IF members = <<>>
    THEN Ok(values)
    ELSE LET m == Head(members)
             r == into_symbol(m.optional, symbols_assign(p, m.fname, m.attr))
         IN  IF r.tag = "Ok"
             THEN symbols_new_from(p, Tail(members), Append(values, r.value))
             ELSE r

symbols_new(p, members) == symbols_new_from(p, members, <<>>)

\* offsets.rs lines 446-485, offsets! @find: the name under which the
\* structure is in the profile, its own name tried first, then each alias.
offsets_find(p, iname, isr_attr) ==
    LET RECURSIVE or_else(_, _)
        or_else(found, names) ==
            IF found.tag = "Some" \/ names = <<>>
            THEN found
            ELSE or_else(IF find_struct(p, Head(names)).tag = "Some"
                         THEN Some(Head(names)) ELSE None,
                         Tail(names))
    IN  or_else(IF find_struct(p, iname).tag = "Some" THEN Some(iname) ELSE None,
                isr_attr.names)

\* offsets! @assign with the aliases tried from the last listed to the first.
offsets_assign_last_alias_first(p, name, fname, isr_attr) ==
    LET RECURSIVE or_else(_, _)
        or_else(result, names) ==
            IF result.tag /= "Err" \/ names = <<>>
            THEN result
            ELSE or_else(find_field_descriptor(p, name, names[Len(names)]),
                         SubSeq(names, 1, Len(names) - 1))
    IN  or_else(find_field_descriptor(p, name, fname), isr_attr.names)

\* offsets.rs lines 487-532, offsets! @assign: find_field_descriptor of the
\* member's own name in the structure found, then of each alias, `.or_else`
\* running the next lookup only on Err.
offsets_assign(p, name, fname, isr_attr) ==
    LET RECURSIVE or_else(_, _)
        or_else(result, names) ==
            IF result.tag /= "Err" \/ names = <<>>
            THEN result
            ELSE or_else(find_field_descriptor(p, name, Head(names)), Tail(names))
    IN  or_else(find_field_descriptor(p, name, fname), isr_attr.names)

\* effective_len_from keeping the end of the last member found.
RECURSIVE effective_len_from_last(_, _, _, _)
effective_len_from_last(p, name, members, effective_len) ==
    IF members = <<>>
    THEN Ok(effective_len)
    ELSE LET m == Head(members)
             r == offsets_assign(p, name, m.fname, m.attr)
         IN  IF r.tag \in {"Ok", "Err"}
             THEN effective_len_from_last(p, name, Tail(members),
                        IF r.tag = "Ok" THEN r.value.size + r.value.offset
                        ELSE effective_len)
             ELSE r

\* offsets.rs lines 382-395: the largest size() + offset() of the members
\* found, a member not found counting 0; Panic / StackOverflow when a lookup
\* does not return.
RECURSIVE effective_len_from(_, _, _, _)
effective_len_from(p, name, members, effective_len) ==
    IF members = <<>>
    THEN Ok(effective_len)
    ELSE LET m == Head(members)
             r == offsets_assign(p, name, m.fname, m.attr)
             end == IF r.tag = "Ok" THEN r.value.size + r.value.offset ELSE 0
         IN  IF r.tag \in {"Ok", "Err"}
             THEN effective_len_from(p, name, Tail(members),
                                     IF end > effective_len THEN end ELSE effective_len)
             ELSE r

into_field(target, optional, result) ==
    IF optional
    THEN IntoFieldOption(target, result)
    ELSE IntoFieldPlain(target, result)

\* offsets.rs lines 397-406: the members in declaration order, the first Err
\* returned by `?`.
RECURSIVE offsets_fields_from(_, _, _, _)
offsets_fields_from(p, name, members, values) ==
    IF members = <<>>
    THEN Ok(values)
    ELSE LET m == Head(members)
             r == into_field(m.target, m.optional,
                             offsets_assign(p, name, m.fname, m.attr))
         IN  IF r.tag = "Ok"
             THEN offsets_fields_from(p, name, Tail(members), Append(values, r.value))
             ELSE r

\* offsets.rs lines 369-410, new() of one inner struct.
offsets_inner_new(p, struct) ==
    LET found == offsets_find(p, struct.iname, struct.attr) IN
    IF found.tag = "None"
    THEN Err(type_not_found(struct.iname))
    ELSE LET name == found.value
             len == struct_size(p, name)
             effective_len == effective_len_from(p, name, struct.members, 0)
             fields == offsets_fields_from(p, name, struct.members, <<>>)
         IN  IF len.tag = "None"
             THEN Err(type_not_found(name))
             ELSE IF effective_len.tag /= "Ok"
             THEN effective_len
             ELSE IF fields.tag /= "Ok"
             THEN fields
             ELSE Ok([name |-> name, fields |-> fields.value,
                      len |-> len.value, effective_len |-> effective_len.value])

\* offsets.rs lines 333-340, new() of the outer struct: each inner struct in
\* declaration order, the first Err returned by `?`.
RECURSIVE offsets_new_from(_, _, _)
offsets_new_from(p, structs, values) ==
    IF structs = <<>>
    THEN Ok(values)
    ELSE LET r == offsets_inner_new(p, Head(structs)) IN
         IF r.tag = "Ok"
         THEN offsets_new_from(p, Tail(structs), Append(values, r.value))
         ELSE r

offsets_new(p, structs) == offsets_new_from(p, structs, <<>>)

-----------------------------------------------------------------------------
(* The profiles queried.                                                   *)

SymbolTable == [n \in {"sym_a", "sym_b"} |-> IF n = "sym_a" THEN 4096 ELSE 0]
SymbolNames == {"sym_a", "sym_b", "sym_q"}

\* Enum "E" is present, enum "Y" is not.
EnumTable == [n \in {"E"} |-> Enum(Base("U16"), <<>>)]
EnumNames == {"E", "Y"}

\* Structs "A", "B", "C" are present, struct "Z" is not.
StructNames == {"A", "B", "C", "Z"}
FieldNames == {"f", "g", "q"}

\* Candidate (name, type) pairs of the fields of A, B and C.
CandA ==
    {<<"f", Base("U32")>>,
     <<"g", StructRef("B")>>, <<"g", StructRef("Z")>>,
     <<"g", PointerRef(StructRef("B"))>>,
     <<"h", StructRef("C")>>,
     <<"h", ArrayRef(StructRef("C"), <<2>>, 2)>>}
CandB ==
    {<<"f", Base("U8")>>, <<"f", BitfieldRef(Base("U8"), 3, 2)>>,
     <<"f", EnumRef("Y")>>,
     <<"f", PointerRef(Base("Void"))>>,
     <<"g", StructRef("C")>>, <<"g", StructRef("A")>>}
CandC ==
    {<<"f", EnumRef("E")>>,
     <<"f", ArrayRef(StructRef("Z"), <<4>>, 4)>>,
     <<"g", StructRef("C")>>}

\* The field maps of at most n entries over the candidates: keys distinct,
\* the i-th entry at offset i * stride.
FieldMaps(cands, n, stride) ==
    LET picks == UNION {[1..k -> cands] : k \in 0..n}
        distinct(s) == \A i, j \in 1..Len(s) : i /= j => s[i][1] /= s[j][1]
    IN  {[i \in 1..Len(s) |-> Field(s[i][1], i * stride, s[i][2])] :
            s \in {t \in picks : distinct(t)}}

TypesOf(fa, fb, fc) ==
    [enums |-> EnumTable,
     structs |-> [n \in {"A", "B", "C"} |->
                    CASE n = "A" -> Struct("Struct", 32, fa)
                      [] n = "B" -> Struct("Struct", 8, fb)
                      [] n = "C" -> Struct("Struct", 4, fc)]]

Architectures == {"Amd64", "Ia64"}

Profiles ==
    {ProfileNew(a, SymbolTable, TypesOf(fa, fb, fc)) :
        a \in Architectures,
        fa \in FieldMaps(CandA, MaxFields, 8),
        fb \in FieldMaps(CandB, 1, 4),
        fc \in FieldMaps(CandC, 1, 2)}

-----------------------------------------------------------------------------
(* The resolution engine over a built profile.                             *)

\* No Bitfield descriptor is in use; no DWARF ingestion is under way.
NoBitfield ==
    /\ bitfield = None
    /\ raw = None
    /\ overflow_checks = FALSE
    /\ extracted = Pending
NoDwarf ==
    /\ dwarf_units = <<>>
    /\ unit_idx = <<>>
    /\ dwarf_types = <<>>
    /\ dwarf_cache = <<>>
    /\ reingested = <<>>
NoPdb ==
    /\ tpi = <<>>
    /\ type_iter = 0
    /\ pdb_types = None
NoSystemMap ==
    /\ systemmap = <<>>
    /\ parsed = Pending
NoCreate ==
    /\ source = None
    /\ pc = [step |-> "idle"]
    /\ written = <<>>
    /\ created = Pending
NoMacro ==
    /\ declared = [macro |-> "none"]
    /\ generated = Pending
NoCache ==
    /\ isr_cache = [flavour |-> "none"]
    /\ callers = <<>>
NoNormalizer == NoDwarf /\ NoPdb /\ NoSystemMap /\ NoCreate

Init ==
    /\ profile \in Profiles
    /\ op = [name |-> "none"]
    /\ stack = <<>>
    /\ outcome = Pending
    /\ converted = Pending
    /\ NoBitfield
    /\ NoNormalizer
    /\ NoMacro
    /\ NoCache

Next ==
    \/ \E t \in StructNames, f \in FieldNames : FindFieldDescriptor(t, f)
    \/ FfdEntry
    \/ FfdLoop
    \/ FfdReturn
    \/ \E target \in ConversionTargets, optional \in BOOLEAN : IntoField(target, optional)
    \/ \E n \in SymbolNames : FindSymbol(n)
    \/ \E n \in SymbolNames : FindSymbolDescriptor(n)
    \/ \E n \in EnumNames : FindEnum(n)
    \/ \E n \in StructNames : FindStruct(n)
    \/ \E n \in EnumNames : EnumSize(n)
    \/ \E n \in StructNames : StructSize(n)
    \/ Discard

vars ==
    <<resolveVars, bitsVars, dwarfVars, pdbVars, mapVars, createVars, macroVars,
      cacheVars>>

Spec == Init /\ [][Next]_vars

-----------------------------------------------------------------------------
(* Properties of the resolution engine.                                    *)

FfdDone == Done /\ op.name = "find_field_descriptor"
Present(type_name) == type_name \in DOMAIN profile.structs
Owns(type_name, field_name) ==
    Present(type_name) /\ HasField(profile.structs[type_name], field_name)

\* The descriptor the spec gives a directly owned field whose size resolves.
ExpectedDirect(type_name, field_name) ==
    LET field == GetField(profile.structs[type_name], field_name) IN
    IF field.type_.kind = "Bitfield"
    THEN BitfieldDesc(field.offset, type_size(profile, field.type_.subtype).value,
                      field.type_.bit_position, field.type_.bit_length)
    ELSE FieldDesc(field.offset, type_size(profile, field.type_).value)

Resolves(type_name, field_name) ==
    type_size(profile, GetField(profile.structs[type_name], field_name).type_).tag = "Some"

\* The descriptors reachable from type_name along chains of at most `depth`
\* structs embedded by value, none but the last owning field_name: the owning
\* struct's descriptor, its offset increased by the offsets of the embedding
\* fields along the chain.
RECURSIVE EmbeddedDescriptors(_, _, _)
EmbeddedDescriptors(type_name, field_name, depth) ==
    IF depth = 0 \/ ~Present(type_name)
    THEN {}
    ELSE IF Owns(type_name, field_name)
    THEN IF Resolves(type_name, field_name)
         THEN {ExpectedDirect(type_name, field_name)}
         ELSE {}
    ELSE LET fields == profile.structs[type_name].fields IN
         UNION {{[d EXCEPT !.offset = @ + fields[i].offset] :
                    d \in EmbeddedDescriptors(fields[i].type_.name, field_name, depth - 1)} :
                i \in {k \in 1..Len(fields) : fields[k].type_.kind = "Struct"}}

\* C1: when the queried struct does not own the field but a struct embedded by
\* value (at any depth) does, a completed find_field_descriptor returns that
\* struct's descriptor with the offsets of the embedding fields added to its
\* offset, and its size, bit position and bit length unchanged.
C1_NestedOffsetIsPathSum ==
    (FfdDone /\ Present(op.type_name) /\ ~Owns(op.type_name, op.field_name)
        /\ outcome.tag \in {"Ok", "Err"})
    => LET reachable == EmbeddedDescriptors(op.type_name, op.field_name, MaxDepth) IN
       /\ outcome.tag = "Ok" => outcome.value \in reachable
       /\ reachable /= {} => outcome.tag = "Ok"

\* A field found two structs deep: A.g = Struct B at 8, B.g = Struct C at 4,
\* C.f at 2.
C1_Witness ==
    /\ FfdDone /\ op.type_name = "A" /\ op.field_name = "f"
    /\ ~Owns("A", "f") /\ ~Owns("B", "f") /\ Owns("C", "f")
    /\ outcome.tag = "Ok" /\ outcome.value.offset = 14

\* C2: a completed find_field_descriptor for a field the struct owns directly,
\* its size resolving, returns a plain descriptor (offset, size of the type)
\* unless the type is a Bitfield, and then a bit-field descriptor (offset,
\* size of the underlying type, the type's bit_position and bit_length).
C2_DirectDescriptor ==
    (FfdDone /\ Owns(op.type_name, op.field_name)
        /\ Resolves(op.type_name, op.field_name))
    => outcome = Ok(ExpectedDirect(op.type_name, op.field_name))

C2_Witness ==
    /\ FfdDone /\ Owns(op.type_name, op.field_name)
    /\ outcome.tag = "Ok" /\ outcome.value.kind = "Bitfield"
    /\ outcome.value.bit_position = 2 /\ outcome.value.bit_length = 3

\* The structs reachable from a set of present structs through at most n
\* fields whose type is directly a Struct reference to a present struct.
RECURSIVE EmbeddedStructs(_, _)
EmbeddedStructs(from, n) ==
    IF n = 0
    THEN from
    ELSE EmbeddedStructs(
            from \cup {t \in DOMAIN profile.structs :
                        \E s \in from : \E i \in 1..Len(profile.structs[s].fields) :
                            profile.structs[s].fields[i].type_ = StructRef(t)},
            n - 1)

\* The field name is found neither in the struct nor in any struct nested in it.
FieldAbsent(type_name, field_name) ==
    \A t \in EmbeddedStructs({type_name}, Cardinality(DOMAIN profile.structs)) :
        ~Owns(t, field_name)

LookedUp(names) == Done /\ op.name \in names

\* C3: a lookup of something absent returns the not-found outcome, never a
\* default value or a crash: find_symbol, find_symbol_descriptor, find_struct,
\* find_enum, struct_size and enum_size of an absent name, and
\* find_field_descriptor of an absent struct or of a field name found neither
\* directly nor through any nested struct.
C3_AbsentIsNotFound ==
    /\ (LookedUp({"find_symbol"}) /\ op.arg \notin DOMAIN profile.symbols)
        => outcome = None
    /\ (LookedUp({"find_symbol_descriptor"}) /\ op.arg \notin DOMAIN profile.symbols)
        => outcome = Err(symbol_not_found(op.arg))
    /\ (LookedUp({"find_enum", "enum_size"}) /\ op.arg \notin DOMAIN profile.enums)
        => outcome = None
    /\ (LookedUp({"find_struct", "struct_size"}) /\ op.arg \notin DOMAIN profile.structs)
        => outcome = None
    /\ (FfdDone /\ ~Present(op.type_name))
        => outcome = Err(type_not_found(op.type_name))
    /\ (FfdDone /\ Present(op.type_name) /\ FieldAbsent(op.type_name, op.field_name))
        => outcome = Err(field_not_found(op.type_name, op.field_name))

\* Converting a descriptor of one shape into the other.
Mismatch(target, descriptor) ==
    \/ target = "Field" /\ descriptor.kind = "Bitfield"
    \/ target = "Bitfield" /\ descriptor.kind = "Field"

IsConversionError(result) == result.tag = "Err" /\ result.error.kind = "Conversion"

\* C4: a type-shape mismatch yields the Conversion error, for plain and for
\* optional members alike, and nothing else does: a not-found lookup keeps its
\* not-found error for a plain member and becomes None for an optional one,
\* and only a not-found lookup becomes None.
C4_ConversionIsDistinct ==
    converted /= Pending =>
        LET r == converted.result IN
        /\ outcome.tag = "Ok" =>
              IF Mismatch(converted.target, outcome.value)
              THEN IsConversionError(r)
              ELSE r.tag = "Ok"
        /\ outcome.tag = "Err" =>
              /\ outcome.error.kind \in {"TypeNotFound", "FieldNotFound"}
              /\ ~IsConversionError(r)
              /\ r = IF converted.optional THEN Ok(None) ELSE outcome
        /\ (converted.optional /\ r.tag = "Ok" /\ r.value = None)
              => outcome.tag = "Err"

\* An optional Field member whose name resolves to a bit-field.
C4_Witness ==
    /\ converted /= Pending /\ converted.optional /\ converted.target = "Field"
    /\ outcome.tag = "Ok" /\ outcome.value.kind = "Bitfield"
    /\ IsConversionError(converted.result)

\* The type a size query ends at: array and bitfield wrappers removed, present
\* enums replaced by their underlying type.
RECURSIVE Unwrapped(_)
Unwrapped(type_) ==
    IF type_.kind \in {"Array", "Bitfield"}
    THEN Unwrapped(type_.subtype)
    ELSE IF type_.kind = "Enum" /\ type_.name \in DOMAIN profile.enums
    THEN Unwrapped(profile.enums[type_.name].subtype)
    ELSE type_

Dangling(type_) ==
    LET leaf == Unwrapped(type_) IN
    \/ leaf.kind = "Struct" /\ leaf.name \notin DOMAIN profile.structs
    \/ leaf.kind = "Enum" /\ leaf.name \notin DOMAIN profile.enums

\* The first field of the struct that is a Struct reference to a present
\* struct, or 0.
FirstLiveStructField(type_name) ==
    LET fields == profile.structs[type_name].fields
        live == {k \in 1..Len(fields) :
                    fields[k].type_.kind = "Struct" /\ Present(fields[k].type_.name)}
    IN  IF live = {} THEN 0 ELSE CHOOSE k \in live : \A j \in live : k <= j

\* C9: dangling references give not-found, not a crash. A field whose type
\* ends (under arrays, bitfields, enums) at an absent struct or enum has
\* unknown size, and find_field_descriptor of it returns field-not-found; a
\* field that is a Struct reference to an absent struct is skipped by the
\* nested search, which goes on to the following fields.
C9_DanglingIsNotFound ==
    /\ \A s \in DOMAIN profile.structs : \A i \in 1..Len(profile.structs[s].fields) :
          Dangling(profile.structs[s].fields[i].type_)
            => type_size(profile, profile.structs[s].fields[i].type_) = None
    /\ (FfdDone /\ Owns(op.type_name, op.field_name)
            /\ Dangling(GetField(profile.structs[op.type_name], op.field_name).type_))
          => outcome = Err(field_not_found(op.type_name, op.field_name))
    /\ (FfdDone /\ Present(op.type_name) /\ ~Owns(op.type_name, op.field_name))
          => LET k == FirstLiveStructField(op.type_name)
                 field == profile.structs[op.type_name].fields[k]
             IN  IF k = 0
                 THEN outcome = Err(field_not_found(op.type_name, op.field_name))
                 ELSE (Owns(field.type_.name, op.field_name)
                         /\ Resolves(field.type_.name, op.field_name))
                      => outcome = Ok([ExpectedDirect(field.type_.name, op.field_name)
                                         EXCEPT !.offset = @ + field.offset])

\* A = {g: Struct Z (absent) at 8, h: Struct C at 16}, C = {f at 2}: the search
\* for f passes over g and finds it through h.
C9_Witness ==
    /\ FfdDone /\ op.type_name = "A" /\ op.field_name = "f"
    /\ Len(profile.structs["A"].fields) = 2
    /\ profile.structs["A"].fields[1].type_ = StructRef("Z")
    /\ profile.structs["A"].fields[2].type_ = StructRef("C")
    /\ outcome.tag = "Ok" /\ outcome.value.offset = 18

\* The owners of field_name in the order the search reaches them from
\* type_name, at most `depth` structs deep: the struct itself if it owns the
\* field, and then nothing below it; otherwise, for each of its fields in
\* declaration order whose type is directly a Struct reference, the owners
\* reached from that struct. Each with the offsets of the embedding fields.
RECURSIVE SearchOrder(_, _, _, _)
RECURSIVE SearchOrderFrom(_, _, _, _, _)
SearchOrderFrom(type_name, field_name, base, depth, from) ==
    LET fields == profile.structs[type_name].fields IN
    IF from > Len(fields)
    THEN <<>>
    ELSE (IF fields[from].type_.kind = "Struct"
          THEN SearchOrder(fields[from].type_.name, field_name,
                           base + fields[from].offset, depth - 1)
          ELSE <<>>)
         \o SearchOrderFrom(type_name, field_name, base, depth, from + 1)

SearchOrder(type_name, field_name, base, depth) ==
    IF depth = 0 \/ ~Present(type_name)
    THEN <<>>
    ELSE IF Owns(type_name, field_name)
    THEN <<[owner |-> type_name, base |-> base]>>
    ELSE SearchOrderFrom(type_name, field_name, base, depth, 1)

\* The owners among these whose field is a match: its size resolves.
Matches(order) == {i \in 1..Len(order) : Resolves(order[i].owner, op.field_name)}

\* C21: a completed find_field_descriptor returns the field the queried
\* struct owns directly, whatever its nested structs hold; otherwise it visits
\* the struct's own fields in declaration order, descends depth-first into
\* those whose type is directly a Struct reference and into no others, and
\* returns the match it reaches first in that order.
C21_FirstMatchInSearchOrder ==
    (FfdDone /\ Present(op.type_name) /\ outcome.tag \in {"Ok", "Err"})
    => LET order == SearchOrder(op.type_name, op.field_name, 0, MaxDepth)
           first == CHOOSE i \in Matches(order) : \A j \in Matches(order) : i <= j
       IN  /\ Owns(op.type_name, op.field_name)
                => order = <<[owner |-> op.type_name, base |-> 0]>>
           /\ outcome.tag = "Ok" <=> Matches(order) /= {}
           /\ outcome.tag = "Ok"
                => outcome.value =
                     [ExpectedDirect(order[first].owner, op.field_name)
                        EXCEPT !.offset = @ + order[first].base]

\* A = {g: Struct B at 8, h: Struct C at 16}, B and C both owning f: the
\* search returns B.f, reached first.
C21_Witness ==
    /\ FfdDone /\ op.type_name = "A" /\ op.field_name = "f"
    /\ Len(profile.structs["A"].fields) = 2
    /\ profile.structs["A"].fields[1].type_ = StructRef("B")
    /\ profile.structs["A"].fields[2].type_ = StructRef("C")
    /\ Owns("B", "f") /\ Resolves("B", "f")
    /\ Owns("C", "f") /\ Resolves("C", "f")
    /\ outcome.tag = "Ok" /\ outcome.value.offset = 12

\* The structs embedded by value, at any depth, in one of the structs given.
Embedded(from) ==
    EmbeddedStructs(
        {t \in DOMAIN profile.structs :
            \E s \in from : \E i \in 1..Len(profile.structs[s].fields) :
                profile.structs[s].fields[i].type_ = StructRef(t)},
        Cardinality(DOMAIN profile.structs))

\* The structs of the circular chains through type_name: those embedded in it
\* that embed it in turn. Empty when type_name is on no cycle.
CycleOf(type_name) ==
    {t \in Embedded({type_name}) : type_name \in Embedded({t})}

\* A completed query of a struct on a circular chain of embedded structs for
\* a field name that no struct of the chain owns.
CircularQuery ==
    /\ FfdDone
    /\ Present(op.type_name)
    /\ CycleOf(op.type_name) /= {}
    /\ \A t \in CycleOf(op.type_name) : ~Owns(t, op.field_name)

\* C22: find_field_descriptor of a struct on a circular chain of embedded
\* structs, for a field name no struct of the chain owns directly, recurses
\* until the stack is exhausted and returns nothing, a not-found outcome in
\* particular.
C22_CircularNeverReturns ==
    CircularQuery => outcome = StackOverflow

\* C22, amended: such a call never returns a not-found outcome. It recurses
\* until the stack is exhausted, unless the field is owned by a struct outside
\* the chain that the search reaches before it has gone round the chain, and
\* then it ends with that field; when no embedded struct owns the field it
\* always exhausts the stack.
C22_CircularNeverNotFound ==
    CircularQuery =>
        /\ outcome.tag /= "Err"
        /\ outcome /= StackOverflow =>
            \E t \in Embedded({op.type_name}) \ CycleOf(op.type_name) :
                Owns(t, op.field_name)
        /\ FieldAbsent(op.type_name, op.field_name) => outcome = StackOverflow

\* A = {g: Struct B}, B = {g: Struct A}, queried for f, which neither owns.
C22_Witness ==
    /\ CircularQuery
    /\ op.type_name = "A" /\ op.field_name = "f"
    /\ CycleOf("A") = {"A", "B"}
    /\ outcome = StackOverflow

-----------------------------------------------------------------------------
(* Construction of a profile and its size queries.                         *)

\* Architecture tags a caller of Profile::new may pass, among them the names
\* of machine types other than the four supported ones.
ArchitectureTags == {"X86", "Arm", "Amd64", "Arm64", "Ia64", "Unknown"}

\* isr-pdb/src/profile.rs:17: the tag is the machine type of the PDB's debug
\* information, printed.
MachineTypes ==
    {"MachineType::X86", "MachineType::Arm", "MachineType::Amd64",
     "MachineType::Arm64", "MachineType::Ia64", "MachineType::Unknown"}
MachineTypeToString(machine_type) ==
    CASE machine_type = "MachineType::X86" -> "X86"
      [] machine_type = "MachineType::Arm" -> "Arm"
      [] machine_type = "MachineType::Amd64" -> "Amd64"
      [] machine_type = "MachineType::Arm64" -> "Arm64"
      [] machine_type = "MachineType::Ia64" -> "Ia64"
      [] machine_type = "MachineType::Unknown" -> "Unknown"

\* The type collections of the profiles constructed: enum "E" over one of
\* these underlying types, struct "A" of one of these declared sizes.
SizeTypes ==
    {[enums |-> [n \in {"E"} |-> Enum(subtype, <<>>)],
      structs |-> [n \in {"A"} |-> Struct("Struct", size, <<>>)]] :
        subtype \in {Base("U16"), Base("I64"), EnumRef("Y"), StructRef("A")},
        size \in {0, 24}}

\* Types of at most n wrappers around a base type, an enum or struct
\* reference, or a function.
RECURSIVE TypesUpTo(_)
TypesUpTo(n) ==
    IF n = 0
    THEN {Base(b) : b \in BaseRef}
            \cup {EnumRef("E"), EnumRef("Y"), StructRef("A"), StructRef("Z"), Function}
    ELSE LET inner == TypesUpTo(n - 1) IN
         inner \cup {ArrayRef(t, <<3>>, 3) : t \in inner}
               \cup {PointerRef(t) : t \in inner}
               \cup {BitfieldRef(t, 3, 1) : t \in inner}

\* isr-core/src/profile.rs:30: Profile::new keeps the tag it is given.
NewProfile(architecture, types) ==
    /\ profile = NoProfile
    /\ profile' = ProfileNew(architecture, SymbolTable, types)
    /\ UNCHANGED <<op, stack, outcome, converted>>
    /\ UNCHANGED notResolve

\* isr-pdb/src/profile.rs:8-35.
PdbCreateProfile(machine_type, types) ==
    NewProfile(MachineTypeToString(machine_type), types)

\* isr-dwarf/src/profile.rs:13-65.
DwarfCreateProfile(types) ==
    NewProfile("Amd64", types)

InitSize ==
    /\ profile = NoProfile
    /\ op = [name |-> "none"]
    /\ stack = <<>>
    /\ outcome = Pending
    /\ converted = Pending
    /\ NoBitfield
    /\ NoNormalizer
    /\ NoMacro
    /\ NoCache

NextSize ==
    \/ \E a \in ArchitectureTags, t \in SizeTypes : NewProfile(a, t)
    \/ \E m \in MachineTypes, t \in SizeTypes : PdbCreateProfile(m, t)
    \/ \E t \in SizeTypes : DwarfCreateProfile(t)
    \/ PointerSize
    \/ \E t \in TypesUpTo(MaxTypeDepth) : TypeSize(t)
    \/ Discard

SpecSize == InitSize /\ [][NextSize]_vars

-----------------------------------------------------------------------------
(* Properties of the size queries.                                         *)

SupportedArchitectures == {"X86", "Arm", "Amd64", "Arm64"}

\* The documented byte width of each base type.
BaseWidth ==
    [Void |-> 0,
     Bool |-> 1, Char |-> 1, I8 |-> 1, U8 |-> 1, F8 |-> 1,
     Wchar |-> 2, I16 |-> 2, U16 |-> 2, F16 |-> 2,
     I32 |-> 4, U32 |-> 4, F32 |-> 4,
     I64 |-> 8, U64 |-> 8, F64 |-> 8,
     I128 |-> 16, U128 |-> 16, F128 |-> 16]

\* The reference size: that of the type under the array, bitfield and enum
\* layers, unknown when that is an absent enum or struct.
ReferenceSize(type_) ==
    LET leaf == Unwrapped(type_) IN
    CASE leaf.kind = "Base" -> Some(BaseWidth[leaf.subkind])
      [] leaf.kind = "Struct" ->
            IF leaf.name \in DOMAIN profile.structs
            THEN Some(profile.structs[leaf.name].size)
            ELSE None
      [] leaf.kind = "Enum" -> None
      [] leaf.kind \in {"Pointer", "Function"} ->
            Some(IF profile.architecture \in {"X86", "Arm"} THEN 4 ELSE 8)

\* C6: on a profile of a supported architecture type_size is the reference
\* size: the fixed width of a base type, the underlying type's size for an
\* enum, the declared size of a struct, the element's size for an array (not
\* times the count), pointer_size() for a pointer or function, the underlying
\* type's size for a bitfield; unknown exactly when the type resolves to an
\* enum or struct absent from its collection.
C6_TypeSizeReference ==
    (LookedUp({"type_size"}) /\ profile.architecture \in SupportedArchitectures)
    => /\ outcome = ReferenceSize(op.arg)
       /\ outcome = None <=> Dangling(op.arg)

\* An array of three enums over U16 has size 2.
C6_Witness ==
    /\ LookedUp({"type_size"}) /\ profile.architecture = "Arm64"
    /\ op.arg = ArrayRef(EnumRef("E"), <<3>>, 3)
    /\ profile.enums["E"].subtype = Base("U16")
    /\ outcome = Some(2)

\* C7: pointer_size() is 4 on X86 and Arm, 8 on Amd64 and Arm64; any other
\* tag is rejected, not given a size.
C7_PointerSize ==
    LookedUp({"pointer_size"})
    => /\ profile.architecture \in {"X86", "Arm"} => outcome = Some(4)
       /\ profile.architecture \in {"Amd64", "Arm64"} => outcome = Some(8)
       /\ profile.architecture \notin SupportedArchitectures => outcome.tag /= "Some"

C7_Witness ==
    LookedUp({"pointer_size"}) /\ profile.architecture = "Arm" /\ outcome = Some(4)

\* C8: no profile with an architecture tag other than X86, Arm, Amd64, Arm64
\* is ever constructed, so that no query panics because of the tag.
C8_UnsupportedTagRejectedAtConstruction ==
    /\ profile /= NoProfile => profile.architecture \in SupportedArchitectures
    /\ outcome /= Panic

-----------------------------------------------------------------------------
(* isr-macros/src/offsets.rs: Bitfield::value_from.  A u64 is the set of   *)
(* the indices of its one bits, bit 0 the least significant.               *)

\* Width of u64 in bits.
Bits == 64
BitIndex == 0..(Bits - 1)

One == {0}

\* The u64 written as 16 hexadecimal digits, most significant first.
FromHex(digits) ==
    {i \in BitIndex : (digits[16 - (i \div 4)] \div (2 ^ (i % 4))) % 2 = 1}

\* v >> n and v << n for a shift amount n below the width.
shr(v, n) == {i \in BitIndex : i + n \in v}
shl(v, n) == {i \in BitIndex : i - n \in v}
\* v - 1 modulo 2^64, and v & w.
wrapping_sub_one(v) ==
    {i \in BitIndex : IF \A j \in 0..(i - 1) : j \notin v THEN i \notin v ELSE i \in v}
bitand(v, w) == v \cap w

\* The operators >>, << and - of u64: with overflow checks (debug builds) a
\* shift by the width or more and a subtraction below zero panic, without
\* them (release builds) the shift amount and the difference wrap.
Shr(v, n, checks) ==
    IF n >= Bits /\ checks THEN Panic ELSE Some(shr(v, n % Bits))
Shl(v, n, checks) ==
    IF n >= Bits /\ checks THEN Panic ELSE Some(shl(v, n % Bits))
SubOne(v, checks) ==
    IF v = {} /\ checks THEN Panic
    ELSE Some(wrapping_sub_one(v))

\* Some(v) when value_from returns v, Panic when it unwinds.
value_from(self, value, checks) ==
    LET result == Shr(value, self.bit_position, checks)
        bit == IF result.tag = "Panic" THEN Panic
               ELSE Shl(One, self.bit_length, checks)
        mask == IF bit.tag = "Panic" THEN Panic ELSE SubOne(bit.value, checks)
    IN  IF mask.tag = "Panic" THEN Panic
        ELSE Some(bitand(result.value, mask.value))

\* bitfield.value_from(raw)
ValueFrom ==
    /\ bitfield /= None
    /\ extracted = Pending
    /\ extracted' = value_from(bitfield, raw, overflow_checks)
    /\ UNCHANGED <<bitfield, raw, overflow_checks>>
    /\ UNCHANGED notBits

\* Forget the result, keeping the descriptor and the raw value.
DropValue ==
    /\ extracted /= Pending
    /\ extracted' = Pending
    /\ UNCHANGED <<bitfield, raw, overflow_checks>>
    /\ UNCHANGED notBits

\* 0x1234567890abcdef, 0xffffffffffffffff and 0x8000000000000001.
RawValues ==
    {FromHex(<<1, 2, 3, 4, 5, 6, 7, 8, 9, 0, 10, 11, 12, 13, 14, 15>>),
     FromHex([i \in 1..16 |-> 15]),
     FromHex(<<8, 0, 0, 0, 0, 0, 0, 0, 0, 0, 0, 0, 0, 0, 0, 1>>)}

\* The descriptors of a field at offset 0 of an 8-byte integer: bit_position
\* and bit_length are whatever the profile's Bitfield type carries.
Bitfields ==
    {BitfieldDesc(0, 8, bit_position, bit_length) :
        bit_position \in 0..Bits, bit_length \in 0..Bits}

InitBits ==
    /\ profile = NoProfile
    /\ op = [name |-> "none"]
    /\ stack = <<>>
    /\ outcome = Pending
    /\ converted = Pending
    /\ NoNormalizer
    /\ NoMacro
    /\ NoCache
    /\ bitfield \in Bitfields
    /\ raw \in RawValues
    /\ overflow_checks \in BOOLEAN
    /\ extracted = Pending

NextBits ==
    \/ ValueFrom
    \/ DropValue

SpecBits == InitBits /\ [][NextBits]_vars

\* The bits [bit_position, bit_position + bit_length) of raw, as a u64.
BitsAt(value, bit_position, bit_length) ==
    {i \in BitIndex : i < bit_length /\ i + bit_position \in value}

\* C5: for every descriptor with bit_position + bit_length <= 64, value_from
\* returns the bit_length-bit value found at bits [bit_position,
\* bit_position + bit_length) of raw; 0x1234567890abcdef gives 0xf for
\* position 0 / length 4 and 0xe for position 4 / length 4.
C5_ValueFromExtractsBits ==
    (extracted /= Pending /\ bitfield.bit_position + bitfield.bit_length <= Bits) =>
        /\ extracted = Some(BitsAt(raw, bitfield.bit_position, bitfield.bit_length))
        /\ (/\ raw = FromHex(<<1, 2, 3, 4, 5, 6, 7, 8, 9, 0, 10, 11, 12, 13, 14, 15>>)
            /\ bitfield.bit_length = 4
            /\ bitfield.bit_position \in {0, 4}) =>
                extracted = Some(FromHex([i \in 1..16 |->
                    IF i < 16 THEN 0
                    ELSE IF bitfield.bit_position = 0 THEN 15 ELSE 14]))

-----------------------------------------------------------------------------
(* isr-dwarf: the DWARF type normalizer.  A debugging information entry is *)
(* its tag, its offset in .debug_info, the record of the attributes it     *)
(* carries and the sequence of its children.  A compilation unit is the    *)
(* file table of its line program and the sequence of the children of its  *)
(* root entry.                                                             *)

Die(tag, offset, attrs, children) ==
    [tag |-> tag, offset |-> offset, attrs |-> attrs, children |-> children]
Unit(files, entries) == [files |-> files, entries |-> entries]
File(directory, path_name) == [directory |-> directory, path_name |-> path_name]

\* Attribute::udata_value and sdata_value of a constant [form, value].
udata_value(constant) ==
    IF constant.form = "udata" \/ (constant.form = "sdata" /\ constant.value >= 0)
    THEN Some(constant.value) ELSE None
sdata_value(constant) ==
    IF constant.form = "sdata" THEN Some(constant.value) ELSE None

\* The attributes the accessors read with Attribute::udata_value.
UdataAttributes ==
    {"bit_size", "byte_size", "count", "data_bit_offset",
     "data_member_location", "upper_bound"}

\* The form an attribute is encoded in: an unsigned constant unless the
\* entry says otherwise under `forms` ("exprloc" for a location expression,
\* the value then being the offset the expression denotes).
form_of(entry, at) ==
    IF "forms" \in DOMAIN entry.attrs
    THEN IF at \in DOMAIN entry.attrs["forms"]
         THEN entry.attrs["forms"][at] ELSE "udata"
    ELSE "udata"

\* isr-dwarf/src/_gimli.rs: the attribute accessors.
attr(entry, at) ==
    IF at \notin DOMAIN entry.attrs THEN None
    ELSE IF at \in UdataAttributes
         THEN udata_value([form |-> form_of(entry, at), value |-> entry.attrs[at]])
         ELSE Some(entry.attrs[at])
\* unit.entries_tree(Some(offset)): the entry of the unit at that offset.
entries_tree(unit, offset) ==
    unit.entries[CHOOSE i \in 1..Len(unit.entries) : unit.entries[i].offset = offset]
die_type(unit, entry) ==
    IF "type" \in DOMAIN entry.attrs
    THEN Some(entries_tree(unit, entry.attrs["type"]))
    ELSE None
\* The file name (without its directory) the file index stands for.
decl_file(unit, entry) ==
    IF "decl_file" \notin DOMAIN entry.attrs THEN None
    ELSE IF entry.attrs["decl_file"] \in 1..Len(unit.files)
         THEN Some(unit.files[entry.attrs["decl_file"]].path_name)
         ELSE None
declaration(entry) ==
    IF "declaration" \in DOMAIN entry.attrs THEN entry.attrs["declaration"] ELSE FALSE
unwrap_or(option, default) ==
    IF option.tag = "Some" THEN option.value ELSE default

\* format!("{:x}", n)
HexDigit(d) ==
    <<"0", "1", "2", "3", "4", "5", "6", "7",
      "8", "9", "a", "b", "c", "d", "e", "f">>[d + 1]
RECURSIVE Hex(_)
Hex(n) == IF n < 16 THEN HexDigit(n) ELSE Hex(n \div 16) \o HexDigit(n % 16)

\* isr-dwarf/src/types.rs
type_name(entry) ==
    IF "name" \in DOMAIN entry.attrs THEN entry.attrs["name"]
    ELSE "__unnamed_" \o Hex(entry.offset)

\* UnsignedOfSize with the two-byte integer taken for a four-byte one.
UnsignedOfSizeWidened(byte_size) ==
    CASE byte_size = 1 -> "U8"
      [] byte_size = 2 -> "U32"
      [] byte_size = 4 -> "U32"
      [] byte_size = 8 -> "U64"
      [] byte_size = 16 -> "U128"
      [] OTHER -> "Void"

UnsignedOfSize(byte_size) ==
    CASE byte_size = 1 -> "U8"
      [] byte_size = 2 -> "U16"
      [] byte_size = 4 -> "U32"
      [] byte_size = 8 -> "U64"
      [] byte_size = 16 -> "U128"
      [] OTHER -> "Void"

type_from_base_type(node) ==
    LET byte_size == attr(node, "byte_size")
        encoding == attr(node, "encoding")
        n == byte_size.value
    IN  IF byte_size = None THEN "Void"
        ELSE IF n = 0 THEN "Void"
        ELSE IF encoding = None THEN UnsignedOfSize(n)
        ELSE CASE encoding.value = "boolean" ->
                    IF n = 1 THEN "Bool" ELSE "Void"
               [] encoding.value \in {"signed", "signed_char"} ->
                    CASE n = 1 -> "I8"
                      [] n = 2 -> "I16"
                      [] n = 4 -> "I32"
                      [] n = 8 -> "I64"
                      [] n = 16 -> "I128"
                      [] OTHER -> "Void"
               [] encoding.value \in {"unsigned", "unsigned_char"} ->
                    UnsignedOfSize(n)
               [] encoding.value = "float" ->
                    CASE n = 4 -> "F32"
                      [] n = 8 -> "F64"
                      [] OTHER -> "Void"
               [] OTHER -> UnsignedOfSize(n)

\* The extents of the subrange children: Some(count), Some(upper_bound + 1)
\* or None each (extents of the model stay far below the width of u64).
RECURSIVE dimensions(_)
dimensions(children) ==
    IF children = <<>> THEN <<>>
    ELSE LET child == Head(children)
             count == IF attr(child, "count") /= None THEN attr(child, "count")
                      ELSE IF attr(child, "upper_bound") /= None
                           THEN Some(attr(child, "upper_bound").value + 1)
                           ELSE None
         IN  IF child.tag /= "subrange_type" THEN dimensions(Tail(children))
             ELSE <<count>> \o dimensions(Tail(children))

RECURSIVE TypeNew(_, _)
RECURSIVE from_type(_, _)

\* type_from_array_type with the last dimension's extent for the count.
type_from_array_type_last(unit, node) ==
    LET dims == dimensions(node.children)
        count == IF dims = <<>> THEN 0 ELSE unwrap_or(dims[Len(dims)], 0)
    IN  ArrayRef(TypeNew(unit, node),
                 [i \in 1..Len(dims) |-> unwrap_or(dims[i], 0)],
                 count)

type_from_array_type(unit, node) ==
    LET dims == dimensions(node.children)
        count == IF dims = <<>> THEN 0 ELSE unwrap_or(dims[1], 0)
    IN  ArrayRef(TypeNew(unit, node),
                 [i \in 1..Len(dims) |-> unwrap_or(dims[i], 0)],
                 count)

\* Type::new: the type of the entry `node` refers to.
TypeNew(unit, node) ==
    LET type_ == die_type(unit, node)
        bit_size == attr(node, "bit_size")
    IN  IF type_ = None THEN Base("Void")
        ELSE IF bit_size /= None
        THEN BitfieldRef(from_type(unit, type_.value),
                         bit_size.value,
                         unwrap_or(attr(node, "data_bit_offset"), 0) % 8)
        ELSE from_type(unit, type_.value)

from_type(unit, node) ==
    CASE node.tag = "base_type" -> Base(type_from_base_type(node))
      [] node.tag = "enumeration_type" -> EnumRef(type_name(node))
      [] node.tag \in {"structure_type", "union_type"} -> StructRef(type_name(node))
      [] node.tag = "array_type" -> type_from_array_type(unit, node)
      [] node.tag = "pointer_type" -> PointerRef(TypeNew(unit, node))
      [] node.tag = "subroutine_type" -> Function
      [] node.tag \in {"typedef", "const_type", "volatile_type"} -> TypeNew(unit, node)
      [] OTHER -> Base("Void")

\* IndexMap::insert on a field map: a new key is appended, a present key
\* keeps its place and takes the new value.
IndexMapInsert(entries, entry) ==
    IF \E i \in 1..Len(entries) : entries[i].name = entry.name
    THEN [i \in 1..Len(entries) |->
            IF entries[i].name = entry.name THEN entry ELSE entries[i]]
    ELSE Append(entries, entry)

\* DwarfStruct::add_field and add_fields.
struct_add_field(fields, unit, node) ==
    LET name == IF "name" \in DOMAIN node.attrs THEN node.attrs["name"]
                ELSE "__unnamed_field_" \o Hex(Len(fields))
        offset == IF attr(node, "data_member_location") /= None
                  THEN attr(node, "data_member_location").value
                  ELSE IF attr(node, "data_bit_offset") /= None
                       THEN attr(node, "data_bit_offset").value \div 8
                       ELSE 0
    IN  IndexMapInsert(fields, Field(name, offset, TypeNew(unit, node)))

RECURSIVE struct_add_fields(_, _, _)
struct_add_fields(fields, unit, children) ==
    IF children = <<>> THEN fields
    ELSE IF Head(children).tag /= "member"
         THEN struct_add_fields(fields, unit, Tail(children))
         ELSE struct_add_fields(struct_add_field(fields, unit, Head(children)),
                                unit, Tail(children))

Variant(kind, value) == [kind |-> kind, value |-> value]

\* DwarfEnum::add_field and add_fields.
enum_add_field(fields, node) ==
    LET name == IF "name" \in DOMAIN node.attrs THEN node.attrs["name"]
                ELSE "__unnamed_" \o Hex(Len(fields))
        value == attr(node, "const_value")
    IN  IF value = None THEN fields
        ELSE IF udata_value(value.value) /= None
        THEN IndexMapInsert(fields,
                [name |-> name, value |-> Variant("U64", udata_value(value.value).value)])
        ELSE IF sdata_value(value.value) /= None
        THEN IndexMapInsert(fields,
                [name |-> name, value |-> Variant("I64", sdata_value(value.value).value)])
        ELSE fields

RECURSIVE enum_add_fields(_, _)
enum_add_fields(fields, children) ==
    IF children = <<>> THEN fields
    ELSE IF Head(children).tag /= "enumerator"
         THEN enum_add_fields(fields, Tail(children))
         ELSE enum_add_fields(enum_add_field(fields, Head(children)), Tail(children))

\* A collection with the entry `name` inserted or replaced.
MapInsert(map, name, udt) ==
    [n \in DOMAIN map \cup {name} |-> IF n = name THEN udt ELSE map[n]]

\* DwarfTypes::add_enum: the Types after the call.
add_enum(types, unit, node) ==
    LET name == type_name(node)
        type_ == die_type(unit, node)
        new_enum == Enum(from_type(unit, type_.value),
                         enum_add_fields(<<>>, node.children))
    IN  IF type_ = None THEN types
        ELSE IF name \notin DOMAIN types.enums
        THEN [types EXCEPT !.enums = MapInsert(types.enums, name, new_enum)]
        ELSE IF Len(new_enum.fields) > Len(types.enums[name].fields)
        THEN [types EXCEPT !.enums = MapInsert(types.enums, name, new_enum)]
        ELSE types

\* DwarfTypes::add_struct: the Types after the call.
add_struct_overwriting(types, unit, node, kind) ==
    LET name == type_name(node)
        new_udt == Struct(kind,
                          unwrap_or(attr(node, "byte_size"), 0),
                          struct_add_fields(<<>>, unit, node.children))
    IN  [types EXCEPT !.structs = MapInsert(types.structs, name, new_udt)]
add_struct(types, unit, node, kind) ==
    LET name == type_name(node)
        new_udt == Struct(kind,
                          unwrap_or(attr(node, "byte_size"), 0),
                          struct_add_fields(<<>>, unit, node.children))
    IN  IF name \notin DOMAIN types.structs
        THEN [types EXCEPT !.structs = MapInsert(types.structs, name, new_udt)]
        ELSE IF Len(new_udt.fields) > Len(types.structs[name].fields)
        THEN [types EXCEPT !.structs = MapInsert(types.structs, name, new_udt)]
        ELSE types

\* The loop of DwarfTypes::add over the children of the unit's root: the
\* Types and the cache once the remaining children are processed.
RECURSIVE add_children(_, _, _, _)
add_children(types, cache, unit, children) ==
    IF children = <<>> THEN [types |-> types, cache |-> cache]
    ELSE LET child == Head(children)
             file == decl_file(unit, child)
             line == attr(child, "decl_line")
             column == attr(child, "decl_column")
             located == file /= None /\ line /= None /\ column /= None
             site == <<file.value, line.value, column.value>>
         IN  IF child.tag \notin {"enumeration_type", "structure_type", "union_type"}
             THEN add_children(types, cache, unit, Tail(children))
             ELSE IF declaration(child)
             THEN add_children(types, cache, unit, Tail(children))
             ELSE IF located /\ site \in cache
             THEN add_children(types, cache, unit, Tail(children))
             ELSE add_children(
                    CASE child.tag = "enumeration_type" -> add_enum(types, unit, child)
                      [] child.tag = "structure_type" ->
                            add_struct(types, unit, child, "Struct")
                      [] child.tag = "union_type" ->
                            add_struct(types, unit, child, "Union"),
                    IF located THEN cache \cup {site} ELSE cache,
                    unit, Tail(children))

add(types, cache, unit) == add_children(types, cache, unit, unit.entries)

\* Types::default()
TypesDefault == [enums |-> <<>>, structs |-> <<>>]

\* create_profile runs once per build of the kernel image; the builds differ
\* in the order the producer emitted the definitions.
Builds == {"forward", "reverse"}

\* One turn of the loop of create_profile: types.add(&unit_ref, &mut cache).
TypesAdd(b) ==
    /\ b \in DOMAIN dwarf_units
    /\ unit_idx[b] < Len(dwarf_units[b])
    /\ LET added == add(dwarf_types[b], dwarf_cache[b],
                        dwarf_units[b][unit_idx[b] + 1])
       IN  /\ dwarf_types' = [dwarf_types EXCEPT ![b] = added.types]
           /\ dwarf_cache' = [dwarf_cache EXCEPT ![b] = added.cache]
    /\ unit_idx' = [unit_idx EXCEPT ![b] = @ + 1]
    /\ UNCHANGED <<dwarf_units, reingested>>
    /\ UNCHANGED notDwarf

\* types.add(&unit_ref, &mut cache) called once more, with the cache as it
\* stands, on the next of the units already ingested.
TypesAddAgain(b) ==
    /\ b \in DOMAIN dwarf_units
    /\ reingested[b] < unit_idx[b]
    /\ LET added == add(dwarf_types[b], dwarf_cache[b],
                        dwarf_units[b][reingested[b] + 1])
       IN  /\ dwarf_types' = [dwarf_types EXCEPT ![b] = added.types]
           /\ dwarf_cache' = [dwarf_cache EXCEPT ![b] = added.cache]
    /\ reingested' = [reingested EXCEPT ![b] = @ + 1]
    /\ UNCHANGED <<dwarf_units, unit_idx>>
    /\ UNCHANGED notDwarf

-----------------------------------------------------------------------------
(* The kernel images ingested: two definitions of one name, in one unit or *)
(* in two, emitted in either order.                                        *)

\* Largest number of members (enumerators) of a definition.
MaxMembers == 3

\* The file table of every line program: two headers of one file name in
\* different directories, and a third header.
Files ==
    <<File("include/linux", "types.h"),
      File("include/uapi", "types.h"),
      File("include/linux", "list.h")>>

\* Where a definition is declared: a file index with line and column, or
\* nothing usable when the producer emits no column.
DeclSites == {0, 1, 2, 3}
DeclAttrs(site) ==
    IF site = 0 THEN [decl_file |-> 1, decl_line |-> 10]
    ELSE [decl_file |-> site, decl_line |-> 10, decl_column |-> 8]

\* The entries every unit carries besides the definitions, at offsets from
\* the unit's base: int, unsigned char, the declaration `struct S;`, a pointer
\* to it, the typedef u8 and the array u8[4].
TypeEntries(base) ==
    <<Die("base_type", base + 1,
          [name |-> "int", byte_size |-> 4, encoding |-> "signed"], <<>>),
      Die("base_type", base + 2,
          [name |-> "unsigned char", byte_size |-> 1, encoding |-> "unsigned_char"],
          <<>>),
      Die("structure_type", base + 3, [name |-> "S", declaration |-> TRUE], <<>>),
      Die("pointer_type", base + 4, [byte_size |-> 8, type |-> base + 3], <<>>),
      Die("typedef", base + 5, [name |-> "u8", type |-> base + 2], <<>>),
      Die("array_type", base + 6, [type |-> base + 5],
          <<Die("subrange_type", base + 7, [upper_bound |-> 3], <<>>)>>)>>

\* The i-th member of a struct or union: struct S *m1; u8 m2 : 2 (located by
\* its bit offset); u8 m3[4]; int m4; ...
MemberDie(base, offset, i) ==
    CASE i = 1 ->
            Die("member", offset + i,
                [name |-> "m1", data_member_location |-> 0, type |-> base + 4], <<>>)
      [] i = 2 ->
            Die("member", offset + i,
                [name |-> "m2", data_bit_offset |-> 67, bit_size |-> 2,
                 type |-> base + 5], <<>>)
      [] i = 3 ->
            Die("member", offset + i,
                [name |-> "m3", data_member_location |-> 9, type |-> base + 6], <<>>)
      [] OTHER ->
            Die("member", offset + i,
                [name |-> "m" \o Hex(i), data_member_location |-> 4 * i,
                 type |-> base + 1], <<>>)

\* The i-th enumerator of an enumeration.
EnumeratorDie(offset, i) ==
    Die("enumerator", offset + i,
        [name |-> "e" \o Hex(i),
         const_value |-> [form |-> "udata", value |-> i - 1]], <<>>)

\* What a definition is made of: its tag, the number of its members, its
\* declaration site, for an enumeration whether the producer gave it an
\* underlying type, whether it has the name "S" or none, and whether the
\* producer gave it a byte size.
Definitions ==
    [tag : {"structure_type", "union_type"}, members : 0..MaxMembers,
     site : DeclSites, typed : {TRUE}, named : BOOLEAN, sized : BOOLEAN]
    \cup
    [tag : {"enumeration_type"}, members : 0..MaxMembers,
     site : DeclSites, typed : BOOLEAN, named : BOOLEAN, sized : BOOLEAN]

DefinitionDie(base, offset, d) ==
    IF d.tag = "enumeration_type"
    THEN Die(d.tag, offset,
             DeclAttrs(d.site)
                @@ (IF d.named THEN [name |-> "S"] ELSE <<>>)
                @@ (IF d.sized THEN [byte_size |-> 4] ELSE <<>>)
                @@ (IF d.typed THEN [type |-> base + 1] ELSE <<>>),
             [i \in 1..d.members |-> EnumeratorDie(offset, i)])
    ELSE Die(d.tag, offset,
             DeclAttrs(d.site)
                @@ (IF d.named THEN [name |-> "S"] ELSE <<>>)
                @@ (IF d.sized THEN [byte_size |-> 16] ELSE <<>>),
             [i \in 1..d.members |-> MemberDie(base, offset, i)])

\* The units of an image holding d1 before d2, in one unit or in two.
Layouts == {"one_unit", "two_units"}
Image(layout, d1, d2) ==
    IF layout = "one_unit"
    THEN <<Unit(Files, TypeEntries(0)
                \o <<DefinitionDie(0, 64, d1), DefinitionDie(0, 80, d2)>>)>>
    ELSE <<Unit(Files, TypeEntries(0) \o <<DefinitionDie(0, 64, d1)>>),
           Unit(Files, TypeEntries(256) \o <<DefinitionDie(256, 320, d2)>>)>>

Collection(tag) == IF tag = "enumeration_type" THEN "enums" ELSE "structs"

InitDwarf ==
    /\ profile = NoProfile
    /\ op = [name |-> "none"]
    /\ stack = <<>>
    /\ outcome = Pending
    /\ converted = Pending
    /\ NoBitfield
    /\ NoPdb
    /\ NoSystemMap
    /\ NoCreate
    /\ NoMacro
    /\ NoCache
    /\ \E d1, d2 \in Definitions, layout \in Layouts :
        /\ Collection(d1.tag) = Collection(d2.tag)
        /\ d1.named = d2.named
        /\ d1.sized = d2.sized
        /\ dwarf_units = [b \in Builds |->
                            IF b = "forward" THEN Image(layout, d1, d2)
                            ELSE Image(layout, d2, d1)]
    /\ unit_idx = [b \in Builds |-> 0]
    /\ dwarf_types = [b \in Builds |-> TypesDefault]
    /\ dwarf_cache = [b \in Builds |-> {}]
    /\ reingested = [b \in Builds |-> 0]

NextDwarf ==
    \E b \in Builds : TypesAdd(b) \/ TypesAddAgain(b)

SpecDwarf == InitDwarf /\ [][NextDwarf]_vars

-----------------------------------------------------------------------------
(* Properties of the DWARF normalizer.                                     *)

\* The definitions (entries that are no declarations) the units hold.
DefinitionsOf(units) ==
    {e \in UNION {{units[u].entries[i] : i \in 1..Len(units[u].entries)} :
                    u \in 1..Len(units)} :
        /\ e.tag \in {"enumeration_type", "structure_type", "union_type"}
        /\ ~declaration(e)}

\* The number of fields a definition declares.
DeclaredFields(e) ==
    Cardinality({i \in 1..Len(e.children) :
        e.children[i].tag =
            IF e.tag = "enumeration_type" THEN "enumerator" ELSE "member"})

\* create_profile has ingested every unit of the build.
Ingested(b) == b \in DOMAIN dwarf_units /\ unit_idx[b] = Len(dwarf_units[b])

\* C10: of two DWARF definitions of one struct (or enum) name with different
\* field counts the registered one is the one with more fields, and ingesting
\* the two in either order yields the same collections.
C10_MoreFieldsWinsInEitherOrder ==
    (Ingested("forward") /\ Ingested("reverse")) =>
        \A d1, d2 \in DefinitionsOf(dwarf_units["forward"]) :
            (/\ type_name(d1) = type_name(d2)
             /\ Collection(d1.tag) = Collection(d2.tag)
             /\ DeclaredFields(d1) > DeclaredFields(d2)) =>
                /\ dwarf_types["forward"] = dwarf_types["reverse"]
                /\ \A b \in Builds :
                    /\ type_name(d1) \in DOMAIN dwarf_types[b][Collection(d1.tag)]
                    /\ Len(dwarf_types[b][Collection(d1.tag)][type_name(d1)].fields)
                            = DeclaredFields(d1)

\* C12: ingesting a compilation unit a second time, with the declaration-site
\* cache as the first pass left it, leaves the enum and struct collections
\* as they are: no entry is added, duplicated or replaced.
C12_ReingestionChangesNothing ==
    [][\A b \in DOMAIN reingested :
            reingested'[b] /= reingested[b] => dwarf_types'[b] = dwarf_types[b]]_vars

\* Every unit of a build was ingested twice, one of them holding a struct
\* with members that no cache key protects and that is registered.
C12_Witness ==
    \E b \in DOMAIN reingested :
        /\ reingested[b] = Len(dwarf_units[b])
        /\ \E e \in DefinitionsOf(dwarf_units[b]) :
            /\ e.tag = "structure_type"
            /\ attr(e, "decl_column") = None
            /\ DeclaredFields(e) > 0
            /\ type_name(e) \in DOMAIN dwarf_types[b].structs

\* The definition carries no DW_AT_name.
Anonymous(e) == "name" \notin DOMAIN e.attrs

\* C13: two distinct anonymous types of an image never receive the same
\* synthesized name, and after the ingestion each of them is an entry of
\* its collection under its own name.
C13_AnonymousTypesAreSeparateEntries ==
    \A b \in Builds :
        Ingested(b) =>
            \A e1, e2 \in DefinitionsOf(dwarf_units[b]) :
                (/\ e1 /= e2
                 /\ Anonymous(e1) /\ Anonymous(e2)
                 /\ Collection(e1.tag) = Collection(e2.tag)) =>
                    /\ type_name(e1) /= type_name(e2)
                    /\ type_name(e1) \in DOMAIN dwarf_types[b][Collection(e1.tag)]
                    /\ type_name(e2) \in DOMAIN dwarf_types[b][Collection(e2.tag)]

\* C17: every field of every registered struct lies at a byte offset within
\* 0..=size, size being the struct's registered byte size.
C17_FieldOffsetWithinSize ==
    \A b \in DOMAIN dwarf_types :
        \A name \in DOMAIN dwarf_types[b].structs :
            LET udt == dwarf_types[b].structs[name]
            IN  \A k \in 1..Len(udt.fields) :
                    udt.fields[k].offset \in 0..udt.size

-----------------------------------------------------------------------------
(* The PDB normalizer (isr-pdb/src/types.rs).  The type stream is the      *)
(* sequence of its records; the TypeIndex of a record is its position.     *)

\* pdb::TypeData, as far as the normalizer tells the records apart.  A
\* RawString is its bytes with the flag of their being valid UTF-8.
RawString(bytes, utf8) == [bytes |-> bytes, utf8 |-> utf8]
Primitive(kind, indirection) ==
    [data |-> "Primitive", kind |-> kind, indirection |-> indirection]
Enumeration(name, underlying_type, fields, forward_reference) ==
    [data |-> "Enumeration", name |-> name, underlying_type |-> underlying_type,
     fields |-> fields, forward_reference |-> forward_reference]
Class(kind, name, size, fields, forward_reference) ==
    [data |-> "Class", kind |-> kind, name |-> name, size |-> size,
     fields |-> fields, forward_reference |-> forward_reference]
Union(name, size, fields, forward_reference) ==
    [data |-> "Union", name |-> name, size |-> size,
     fields |-> fields, forward_reference |-> forward_reference]
FieldList(fields, continuation) ==
    [data |-> "FieldList", fields |-> fields, continuation |-> continuation]
Member(name, offset, field_type) ==
    [data |-> "Member", name |-> name, offset |-> offset, field_type |-> field_type]
Enumerate(name, value) == [data |-> "Enumerate", name |-> name, value |-> value]
Array(element_type, dims) ==
    [data |-> "Array", element_type |-> element_type, dimensions |-> dims]
Pointer(underlying_type) == [data |-> "Pointer", underlying_type |-> underlying_type]
Bitfield(underlying_type, length, position) ==
    [data |-> "Bitfield", underlying_type |-> underlying_type,
     length |-> length, position |-> position]
Procedure == [data |-> "Procedure"]
Modifier(underlying_type) == [data |-> "Modifier", underlying_type |-> underlying_type]
\* A record of a kind the normalizer has no arm for.
MemberFunction == [data |-> "MemberFunction"]
\* A record whose bytes Item::parse rejects.
Unparsed == [data |-> "Unparsed"]

\* String::from_utf8_lossy and str::from_utf8 of a RawString.
from_utf8_lossy(name) ==
    IF name.utf8 THEN name.bytes ELSE name.bytes \o "{U+FFFD}"
from_utf8(name) ==
    IF name.utf8 THEN Ok(name.bytes) ELSE Err("Utf8Error")

\* str::starts_with over the names of the model: `name` is `prefix` followed
\* by one of the tails the names end in.
NameTails == {"", "tag>", "_1", "_2", "_3"}
starts_with(name, prefix) == \E tail \in NameTails : name = prefix \o tail

\* isr-pdb/src/types.rs: type_name
pdb_type_name(name, index) ==
    LET lossy == from_utf8_lossy(name)
    IN  IF \/ starts_with(lossy, "<anonymous-")
           \/ starts_with(lossy, "<unnamed-")
           \/ starts_with(lossy, "__unnamed")
        THEN "__anonymous_" \o Hex(index)
        ELSE lossy

convert_variant(variant) == Variant(variant.kind, variant.value)

from_primitive_kind(kind) ==
    Base(CASE kind = "Void" -> "Void"
           [] kind = "Bool8" -> "Bool"
           [] kind \in {"RChar", "Char", "UChar"} -> "Char"
           [] kind = "WChar" -> "Wchar"
           [] kind = "I8" -> "I8"
           [] kind = "U8" -> "U8"
           [] kind \in {"I16", "Short"} -> "I16"
           [] kind \in {"U16", "UShort"} -> "U16"
           [] kind \in {"I32", "Long", "HRESULT"} -> "I32"
           [] kind \in {"U32", "ULong"} -> "U32"
           [] kind \in {"I64", "Quad"} -> "I64"
           [] kind \in {"U64", "UQuad"} -> "U64"
           [] kind = "F32" -> "F32"
           [] kind = "F64" -> "F64"
           [] OTHER -> "Void")

\* Iterator::product over the dimensions.
RECURSIVE product(_)
product(dims) ==
    IF dims = <<>> THEN 1
    ELSE Head(dims) * product(Tail(dims))

\* PdbType::new: the Type of the record at type_index (every index a record
\* refers to is in the stream and parses).
RECURSIVE PdbTypeNew(_, _)
PdbTypeNew(stream, type_index) ==
    LET data == stream[type_index]
    IN  CASE data.data = "Primitive" ->
                IF data.indirection THEN PointerRef(from_primitive_kind(data.kind))
                ELSE from_primitive_kind(data.kind)
          [] data.data = "Enumeration" -> EnumRef(pdb_type_name(data.name, type_index))
          [] data.data \in {"Union", "Class"} ->
                StructRef(pdb_type_name(data.name, type_index))
          [] data.data = "Array" ->
                ArrayRef(PdbTypeNew(stream, data.element_type),
                         data.dimensions, product(data.dimensions))
          [] data.data = "Pointer" ->
                PointerRef(PdbTypeNew(stream, data.underlying_type))
          [] data.data = "Bitfield" ->
                BitfieldRef(PdbTypeNew(stream, data.underlying_type),
                            data.length, data.position)
          [] data.data = "Procedure" -> Function
          [] data.data = "Modifier" -> PdbTypeNew(stream, data.underlying_type)
          [] OTHER -> Base("Void")

\* PdbEnum::add_field and add_fields (the field list and its continuations).
pdb_enum_add_field(fields, field) ==
    IF field.data = "Enumerate" /\ from_utf8(field.name).tag = "Ok"
    THEN IndexMapInsert(fields, [name |-> from_utf8(field.name).value,
                                 value |-> convert_variant(field.value)])
    ELSE fields

RECURSIVE pdb_enum_add_each(_, _)
pdb_enum_add_each(fields, list) ==
    IF list = <<>> THEN fields
    ELSE pdb_enum_add_each(pdb_enum_add_field(fields, Head(list)), Tail(list))

RECURSIVE pdb_enum_add_fields(_, _, _)
pdb_enum_add_fields(fields, stream, type_index) ==
    LET data == stream[type_index]
    IN  IF data.data /= "FieldList" THEN fields
        ELSE LET added == pdb_enum_add_each(fields, data.fields)
             IN  IF data.continuation = None THEN added
                 ELSE pdb_enum_add_fields(added, stream, data.continuation.value)

\* PdbStruct::add_field and add_fields; type_index is the field list's.
pdb_struct_add_field(fields, stream, type_index, field) ==
    IF field.data = "Member"
    THEN IndexMapInsert(fields, Field(pdb_type_name(field.name, type_index),
                                      field.offset,
                                      PdbTypeNew(stream, field.field_type)))
    ELSE fields

RECURSIVE pdb_struct_add_each(_, _, _, _)
pdb_struct_add_each(fields, stream, type_index, list) ==
    IF list = <<>> THEN fields
    ELSE pdb_struct_add_each(
            pdb_struct_add_field(fields, stream, type_index, Head(list)),
            stream, type_index, Tail(list))

RECURSIVE pdb_struct_add_fields(_, _, _)
pdb_struct_add_fields(fields, stream, type_index) ==
    LET data == stream[type_index]
    IN  IF data.data /= "FieldList" THEN fields
        ELSE LET added == pdb_struct_add_each(fields, stream, type_index, data.fields)
             IN  IF data.continuation = None THEN added
                 ELSE pdb_struct_add_fields(added, stream, data.continuation.value)

\* PdbTypes::add_enum, add_class and add_union: the Types after the call.
pdb_add_enum(types, stream, type_index, enumeration) ==
    LET name == pdb_type_name(enumeration.name, type_index)
        new_enum == Enum(PdbTypeNew(stream, enumeration.underlying_type),
                         pdb_enum_add_fields(<<>>, stream, enumeration.fields))
    IN  [types EXCEPT !.enums = MapInsert(types.enums, name, new_enum)]

pdb_add_class(types, stream, type_index, class) ==
    LET name == pdb_type_name(class.name, type_index)
        new_udt == Struct(class.kind, class.size,
                          IF class.fields = None THEN <<>>
                          ELSE pdb_struct_add_fields(<<>>, stream, class.fields.value))
    IN  [types EXCEPT !.structs = MapInsert(types.structs, name, new_udt)]

pdb_add_union(types, stream, type_index, union) ==
    LET name == pdb_type_name(union.name, type_index)
        new_udt == Struct("Union", union.size,
                          pdb_struct_add_fields(<<>>, stream, union.fields))
    IN  [types EXCEPT !.structs = MapInsert(types.structs, name, new_udt)]

\* The body of the loop of PdbTypes::parse on the record at type_index.
pdb_parse_record(types, stream, type_index) ==
    LET typ == stream[type_index]
    IN  CASE typ.data = "Unparsed" -> Err("Pdb")
          [] typ.data = "Enumeration" /\ ~typ.forward_reference ->
                pdb_add_enum(types, stream, type_index, typ)
          [] typ.data = "Class" /\ ~typ.forward_reference ->
                pdb_add_class(types, stream, type_index, typ)
          [] typ.data = "Union" /\ ~typ.forward_reference ->
                pdb_add_union(types, stream, type_index, typ)
          [] OTHER -> types

\* parse is in its loop: no record has failed.
Parsing == "structs" \in DOMAIN pdb_types

\* One turn of the loop of PdbTypes::parse.
TypesParseNext ==
    /\ Parsing
    /\ type_iter < Len(tpi)
    /\ type_iter' = type_iter + 1
    /\ pdb_types' = pdb_parse_record(pdb_types, tpi, type_iter + 1)
    /\ UNCHANGED tpi
    /\ UNCHANGED notPdb

-----------------------------------------------------------------------------
(* The type streams parsed: the primitives, a few records members refer    *)
(* to, and two definitions, each with its field lists.                     *)

\* What the TypeFinder answers below the first record of the stream.
PdbPrimitives ==
    <<Primitive("Long", FALSE), Primitive("ULong", FALSE),
      Primitive("UChar", FALSE), Primitive("Void", TRUE)>>

\* Records the members refer to: a forward reference and a pointer to it,
\* a bit field, an array, a modifier, a procedure and a member function.
PdbSupport ==
    <<Class("Struct", RawString("T", TRUE), 0, None, TRUE),
      Pointer(5),
      Bitfield(2, 3, 12),
      Array(3, <<4>>),
      Modifier(1),
      Procedure,
      MemberFunction>>

\* The type index of the i-th member of the definition in `slot`.
MemberTypeCycle == <<1, 7, 6, 8, 10, 11, 9, 4>>
MemberType(slot, i) ==
    MemberTypeCycle[(((slot - 1) * 3 + i - 1) % Len(MemberTypeCycle)) + 1]

\* How the members of an image are named: pairwise distinct, by a pattern
\* of anonymous names, one name declared twice, or one name no valid UTF-8.
Namings == {"distinct", "unnamed", "repeated", "lossy"}
MemberName(naming, i) ==
    CASE naming = "unnamed" -> RawString("__unnamed_" \o Hex(i), TRUE)
      [] naming = "repeated" -> RawString("m" \o Hex((i + 1) \div 2), TRUE)
      [] naming = "lossy" /\ i = 2 -> RawString("m", FALSE)
      [] OTHER -> RawString("m" \o Hex(i), TRUE)

PdbMember(tag, naming, slot, i) ==
    IF tag = "enum"
    THEN Enumerate(MemberName(naming, i), Variant("I32", 10 * slot + i))
    ELSE Member(MemberName(naming, i), 4 * (i - 1), MemberType(slot, i))

\* A definition: its tag, its name and the number of its members.
PdbDefinitions ==
    [tag : {"enum", "class", "union"},
     name : {"T", "<unnamed-tag>"},
     members : 0..MaxMembers]

\* The record of the definition d, complete or a forward reference.
PdbRecord(d, slot, fields, forward_reference) ==
    CASE d.tag = "enum" ->
            Enumeration(RawString(d.name, TRUE), 8 + slot, fields, forward_reference)
      [] d.tag = "class" ->
            Class("Struct", RawString(d.name, TRUE),
                  IF forward_reference THEN 0 ELSE 16,
                  IF forward_reference \/ d.members = 0 THEN None ELSE Some(fields),
                  forward_reference)
      [] OTHER ->
            Union(RawString(d.name, TRUE),
                  IF forward_reference THEN 0 ELSE 16, fields, forward_reference)

\* The three records of a definition from index base + 1 on: its forward
\* reference, its field list and the definition; or, with a paged field
\* list, the continuation, the first page and the definition.
PdbGroup(d, slot, base, naming, paged) ==
    LET m(i) == PdbMember(d.tag, naming, slot, i)
        method == IF d.tag = "enum" THEN <<>> ELSE <<[data |-> "Method"]>>
    IN  IF paged /\ d.members >= 2
        THEN <<FieldList([i \in 1..(d.members - 1) |-> m(i + 1)] \o method, None),
               FieldList(<<m(1)>>, Some(base + 1)),
               PdbRecord(d, slot, base + 2, FALSE)>>
        ELSE <<PdbRecord(d, slot, base + 2, TRUE),
               FieldList([i \in 1..d.members |-> m(i)], None),
               PdbRecord(d, slot, base + 2, FALSE)>>

FirstGroup == Len(PdbPrimitives) + Len(PdbSupport)

TypeStream(d1, d2, naming, paged, damaged) ==
    PdbPrimitives \o PdbSupport
        \o PdbGroup(d1, 1, FirstGroup, naming, paged)
        \o PdbGroup(d2, 2, FirstGroup + 3, naming, paged)
        \o (IF damaged THEN <<Unparsed>> ELSE <<>>)

\* No profile is being queried.
NoResolve ==
    /\ profile = NoProfile
    /\ op = [name |-> "none"]
    /\ stack = <<>>
    /\ outcome = Pending
    /\ converted = Pending

InitPdb ==
    /\ NoResolve
    /\ NoBitfield
    /\ NoDwarf
    /\ NoSystemMap
    /\ NoCreate
    /\ NoMacro
    /\ NoCache
    /\ \E d1, d2 \in PdbDefinitions, naming \in Namings, paged, damaged \in BOOLEAN :
        tpi = TypeStream(d1, d2, naming, paged, damaged)
    /\ type_iter = Len(PdbPrimitives)
    /\ pdb_types = TypesDefault

NextPdb == TypesParseNext

SpecPdb == InitPdb /\ [][NextPdb]_vars

-----------------------------------------------------------------------------
(* Properties of the PDB normalizer.                                       *)

\* parse has consumed the whole stream and returns Ok(result).
ParsedAll == tpi /= <<>> /\ Parsing /\ type_iter = Len(tpi)

\* The indices of the records parse adds: the definitions that are no
\* forward references.
PdbDefinitionsOf(stream) ==
    {i \in (Len(PdbPrimitives) + 1)..Len(stream) :
        /\ stream[i].data \in {"Enumeration", "Class", "Union"}
        /\ ~stream[i].forward_reference}

PdbCollection(data) == IF data.data = "Enumeration" THEN "enums" ELSE "structs"

\* The field mapping the definition at index i comes with.
PdbFieldsOf(stream, i) ==
    CASE stream[i].data = "Enumeration" ->
            pdb_enum_add_fields(<<>>, stream, stream[i].fields)
      [] stream[i].data = "Class" /\ stream[i].fields = None -> <<>>
      [] stream[i].data = "Class" ->
            pdb_struct_add_fields(<<>>, stream, stream[i].fields.value)
      [] OTHER -> pdb_struct_add_fields(<<>>, stream, stream[i].fields)

\* C11: of the PDB definitions added under one name of a collection the
\* one kept has the most fields: a later definition with fewer fields does
\* not replace an earlier definition with more fields.
C11_PdbMoreFieldsIsKept ==
    ParsedAll =>
        \A i, j \in PdbDefinitionsOf(tpi) :
            (/\ i < j
             /\ PdbCollection(tpi[i]) = PdbCollection(tpi[j])
             /\ pdb_type_name(tpi[i].name, i) = pdb_type_name(tpi[j].name, j)
             /\ Len(PdbFieldsOf(tpi, i)) > Len(PdbFieldsOf(tpi, j))) =>
                Len(pdb_types[PdbCollection(tpi[i])]
                        [pdb_type_name(tpi[i].name, i)].fields)
                    = Len(PdbFieldsOf(tpi, i))

\* The Member records a field list declares, its continuations included,
\* in the order add_fields meets them, each with the index of its list.
RECURSIVE DeclaredMembers(_, _)
DeclaredMembers(stream, type_index) ==
    LET data == stream[type_index]
        here == SelectSeq(data.fields, LAMBDA f : f.data = "Member")
    IN  IF data.data /= "FieldList" THEN <<>>
        ELSE here \o (IF data.continuation = None THEN <<>>
                      ELSE DeclaredMembers(stream, data.continuation.value))

\* The members the struct definition at index i declares.
MembersOf(stream, i) ==
    IF stream[i].data = "Class"
    THEN IF stream[i].fields = None THEN <<>>
         ELSE DeclaredMembers(stream, stream[i].fields.value)
    ELSE DeclaredMembers(stream, stream[i].fields)

\* The last of the declarations of the name among the members.
LastDeclared(members, name) ==
    members[CHOOSE k \in 1..Len(members) :
                /\ members[k].name = name
                /\ \A l \in (k + 1)..Len(members) : members[l].name /= name]

\* C14: right after a class or union is added, its field mapping has one
\* entry per distinct declared member name, holding the offset and the type
\* of the last declaration of that name.
C14_OneEntryPerDeclaredName ==
    \A i \in PdbDefinitionsOf(tpi) :
        (Parsing /\ type_iter = i /\ PdbCollection(tpi[i]) = "structs") =>
            LET members == MembersOf(tpi, i)
                names == {members[k].name : k \in 1..Len(members)}
                fields == pdb_types.structs[pdb_type_name(tpi[i].name, i)].fields
            IN  /\ Len(fields) = Cardinality(names)
                /\ \A n \in names :
                    \E k \in 1..Len(fields) :
                        /\ fields[k].offset = LastDeclared(members, n).offset
                        /\ fields[k].type_ =
                                PdbTypeNew(tpi, LastDeclared(members, n).field_type)

-----------------------------------------------------------------------------
(* The System.map parser (isr-dwarf/src/symbols.rs).  A text is the        *)
(* sequence of its characters.                                             *)

\* str::lines: the text split at its line feeds; a final line feed ends
\* the last line and opens no further one.
RECURSIVE lines(_)
lines(text) ==
    IF text = <<>> THEN <<>>
    ELSE IF \A i \in 1..Len(text) : text[i] /= "\n" THEN <<text>>
    ELSE LET feed == CHOOSE i \in 1..Len(text) :
                        /\ text[i] = "\n"
                        /\ \A j \in 1..(i - 1) : text[j] /= "\n"
         IN  <<SubSeq(text, 1, feed - 1)>> \o lines(SubSeq(text, feed + 1, Len(text)))

\* str::split_whitespace: the maximal runs of characters that are no white
\* space, in order.
is_whitespace(c) == c \in {" ", "\t", "\r", "\n"}
RECURSIVE split_whitespace(_)
split_whitespace(line) ==
    IF line = <<>> THEN <<>>
    ELSE IF is_whitespace(Head(line)) THEN split_whitespace(Tail(line))
    ELSE LET stop == IF \A i \in 1..Len(line) : ~is_whitespace(line[i])
                     THEN Len(line) + 1
                     ELSE CHOOSE i \in 1..Len(line) :
                            /\ is_whitespace(line[i])
                            /\ \A j \in 1..(i - 1) : ~is_whitespace(line[j])
         IN  <<SubSeq(line, 1, stop - 1)>>
                \o split_whitespace(SubSeq(line, stop, Len(line)))

\* char::to_digit(16)
to_digit(c) ==
    LET lower == <<"0", "1", "2", "3", "4", "5", "6", "7",
                   "8", "9", "a", "b", "c", "d", "e", "f">>
        upper == <<"0", "1", "2", "3", "4", "5", "6", "7",
                   "8", "9", "A", "B", "C", "D", "E", "F">>
    IN  IF \E d \in 1..16 : lower[d] = c \/ upper[d] = c
        THEN Some((CHOOSE d \in 1..16 : lower[d] = c \/ upper[d] = c) - 1)
        ELSE None

\* u64::from_str_radix(src, 16): an optional "+", then one hexadecimal digit
\* or more (the addresses of the model stay far below 2^64).
RECURSIVE from_digits(_, _)
from_digits(value, digits) ==
    IF digits = <<>> THEN Ok(value)
    ELSE IF to_digit(Head(digits)) = None THEN Err("InvalidDigit")
    ELSE from_digits(value * 16 + to_digit(Head(digits)).value, Tail(digits))

from_str_radix(src) ==
    IF src = <<>> THEN Err("Empty")
    ELSE LET digits == IF Head(src) = "+" THEN Tail(src) ELSE src
         IN  IF digits = <<>> THEN Err("InvalidDigit")
             ELSE from_digits(0, digits)

\* SystemMapSymbols::parse: the loop over the lines, from `result` on.
RECURSIVE parse_lines(_, _)
parse_lines(result, rest) ==
    IF rest = <<>> THEN Ok(result)
    ELSE LET parts == split_whitespace(Head(rest))
         IN  IF Len(parts) < 3 THEN Err("InvalidSystemMap")
             ELSE IF parts[2] \notin {<<"d">>, <<"D">>, <<"t">>, <<"T">>}
             THEN parse_lines(result, Tail(rest))
             ELSE IF from_str_radix(parts[1]).tag = "Err"
             THEN Err("InvalidSystemMap")
             ELSE parse_lines(
                    IndexMapInsert(result,
                        [name |-> parts[3], rva |-> from_str_radix(parts[1]).value]),
                    Tail(rest))

symbols_parse(text) == parse_lines(<<>>, lines(text))

\* SystemMapSymbols::parse(systemmap)
SymbolsParse ==
    /\ parsed = Pending
    /\ parsed' = symbols_parse(systemmap)
    /\ UNCHANGED systemmap
    /\ UNCHANGED notMap

-----------------------------------------------------------------------------
(* The System.map texts parsed: up to MaxLines lines of a few kinds.       *)

\* Largest number of lines of a System.map.
MaxLines == 3

\* "10 T a", "2f D b", "1F t a", "10 T a x": symbols of the kinds kept;
\* "30 b c": a symbol of a kind left out; "" and " \t": blank lines;
\* "10 T": a line of two fields; "zz T a", "zz b c": no hexadecimal address.
MapLines ==
    {<<"1", "0", " ", "T", " ", "a">>,
     <<"2", "f", " ", "D", " ", "b">>,
     <<"1", "F", "\t", "t", " ", "a">>,
     <<"1", "0", " ", "T", " ", "a", " ", "x">>,
     <<"3", "0", " ", "b", " ", "c">>,
     <<>>,
     <<" ", "\t">>,
     <<"1", "0", " ", "T">>,
     <<"z", "z", " ", "T", " ", "a">>,
     <<"z", "z", " ", "b", " ", "c">>}

\* The text of the lines, each but the last ended by a line feed, the last
\* one too when `feed` holds.
RECURSIVE Unlines(_, _)
Unlines(ls, feed) ==
    IF ls = <<>> THEN <<>>
    ELSE IF Len(ls) = 1 THEN Head(ls) \o (IF feed THEN <<"\n">> ELSE <<>>)
    ELSE Head(ls) \o <<"\n">> \o Unlines(Tail(ls), feed)

SystemMaps ==
    {Unlines(ls, feed) :
        ls \in UNION {[1..n -> MapLines] : n \in 0..MaxLines}, feed \in BOOLEAN}

InitMap ==
    /\ NoResolve
    /\ NoBitfield
    /\ NoDwarf
    /\ NoPdb
    /\ NoCreate
    /\ NoMacro
    /\ NoCache
    /\ systemmap \in SystemMaps
    /\ parsed = Pending

NextMap == SymbolsParse

SpecMap == InitMap /\ [][NextMap]_vars

-----------------------------------------------------------------------------
(* Properties of the System.map parser.                                    *)

\* The line is blank: empty or white space only.
Blank(line) == \A i \in 1..Len(line) : is_whitespace(line[i])

\* The field is a hexadecimal number.
Hexadecimal(field) ==
    /\ field /= <<>>
    /\ \A i \in 1..Len(field) :
        field[i] \in {"0", "1", "2", "3", "4", "5", "6", "7", "8", "9",
                      "a", "b", "c", "d", "e", "f",
                      "A", "B", "C", "D", "E", "F"}

\* The line is malformed: it has fewer than three fields or its address is
\* no hexadecimal number.
Malformed(line) ==
    /\ ~Blank(line)
    /\ \/ Len(split_whitespace(line)) < 3
       \/ ~Hexadecimal(split_whitespace(line)[1])

\* C15: a System.map with a malformed line fails to parse as a whole, with
\* the invalid-system-map error and no symbol table.
C15_MalformedLineAborts ==
    parsed /= Pending =>
        ((\E i \in 1..Len(lines(systemmap)) : Malformed(lines(systemmap)[i]))
            => parsed = Err("InvalidSystemMap"))

\* C16: a System.map whose lines are blank or well formed parses, to the
\* symbol table of the same map without its blank lines.
C16_BlankLinesAreIgnored ==
    (/\ parsed /= Pending
     /\ \A i \in 1..Len(lines(systemmap)) : ~Malformed(lines(systemmap)[i])) =>
        /\ parsed.tag = "Ok"
        /\ parsed = parse_lines(<<>>, SelectSeq(lines(systemmap),
                                                LAMBDA line : ~Blank(line)))

\* Every Bitfield within the type has its bit_position in 0..=7.
RECURSIVE BitPositionsInByte(_)
BitPositionsInByte(type_) ==
    CASE type_.kind = "Bitfield" ->
            type_.bit_position \in 0..7 /\ BitPositionsInByte(type_.subtype)
      [] type_.kind \in {"Array", "Pointer"} -> BitPositionsInByte(type_.subtype)
      [] OTHER -> TRUE

\* C18: every Bitfield type of the structs and enums parsed so far has its
\* bit_position in 0..=7.
C18_BitPositionWithinByte ==
    Parsing =>
        /\ \A name \in DOMAIN pdb_types.structs :
            \A k \in 1..Len(pdb_types.structs[name].fields) :
                BitPositionsInByte(pdb_types.structs[name].fields[k].type_)
        /\ \A name \in DOMAIN pdb_types.enums :
            BitPositionsInByte(pdb_types.enums[name].subtype)

-----------------------------------------------------------------------------
(* create_profile of the two normalizers (isr-pdb/src/profile.rs,          *)
(* isr-dwarf/src/profile.rs), step by step from the opened source to the   *)
(* serialization callback.                                                 *)

\* pdb::SymbolData, as far as PdbSymbols::parse tells the symbols apart: a
\* public symbol, a symbol of another kind, a symbol Symbol::parse rejects.
Public(name, offset) == [data |-> "Public", name |-> name, offset |-> offset]
ProcedureSymbol == [data |-> "Procedure"]
UnparsedSymbol == [data |-> "Unparsed"]

\* PdbInternalSectionOffset::to_rva: the section's address plus the offset,
\* None for a section the address map does not hold.
to_rva(address_map, offset) ==
    IF offset.section \in DOMAIN address_map
    THEN Some(address_map[offset.section] + offset.offset)
    ELSE None

\* PdbSymbols::parse: the loop over the symbols, from `result` on.
RECURSIVE pdb_symbols_parse(_, _, _)
pdb_symbols_parse_strict(result, address_map, symbols) ==
    IF symbols = <<>> THEN Ok(result)
    ELSE LET symbol == Head(symbols)
         IN  IF symbol.data = "Unparsed" THEN Err("Pdb")
             ELSE IF symbol.data /= "Public"
             THEN pdb_symbols_parse(result, address_map, Tail(symbols))
             ELSE IF from_utf8(symbol.name).tag = "Err"
             THEN pdb_symbols_parse(result, address_map, Tail(symbols))
             ELSE IF to_rva(address_map, symbol.offset) = None
             THEN Err("Pdb")
             ELSE pdb_symbols_parse(
                    IndexMapInsert(result,
                        [name |-> from_utf8(symbol.name).value,
                         rva |-> to_rva(address_map, symbol.offset).value]),
                    address_map, Tail(symbols))
pdb_symbols_parse(result, address_map, symbols) ==
    IF symbols = <<>> THEN Ok(result)
    ELSE LET symbol == Head(symbols)
         IN  IF symbol.data = "Unparsed" THEN Err("Pdb")
             ELSE IF symbol.data /= "Public"
             THEN pdb_symbols_parse(result, address_map, Tail(symbols))
             ELSE IF from_utf8(symbol.name).tag = "Err"
             THEN pdb_symbols_parse(result, address_map, Tail(symbols))
             ELSE IF to_rva(address_map, symbol.offset) = None
             THEN pdb_symbols_parse(result, address_map, Tail(symbols))
             ELSE pdb_symbols_parse(
                    IndexMapInsert(result,
                        [name |-> from_utf8(symbol.name).value,
                         rva |-> to_rva(address_map, symbol.offset).value]),
                    address_map, Tail(symbols))

\* PdbTypes::parse: the loop over the records from type_index on.
RECURSIVE pdb_types_parse(_, _, _)
pdb_types_parse(types, stream, type_index) ==
    IF type_index > Len(stream) THEN Ok(types)
    ELSE LET result == pdb_parse_record(types, stream, type_index)
         IN  IF result = Err("Pdb") THEN result
             ELSE pdb_types_parse(result, stream, type_index + 1)

\* The loop of the DWARF create_profile: types.add for every unit.
RECURSIVE dwarf_types_add(_, _, _)
dwarf_types_add(types, cache, units) ==
    IF units = <<>> THEN types
    ELSE LET added == add(types, cache, Head(units))
         IN  dwarf_types_add(added.types, added.cache, Tail(units))

\* create_profile returns the error through `?`.
Fail(error) ==
    /\ created' = Err(error)
    /\ pc' = [pc EXCEPT !.step = "done"]
    /\ UNCHANGED <<source, written>>

\* PDB::open, debug_information, machine_type; or Mmap::map,
\* object::File::parse, load_dwarf_sections.
CreateOpen ==
    /\ pc.step = "open"
    /\ IF ~source.intact
       THEN Fail(IF source.format = "pdb" THEN "Pdb" ELSE "Object")
       ELSE /\ pc' = IF source.format = "pdb"
                     THEN [pc EXCEPT !.step = "symbols",
                                     !.architecture =
                                        MachineTypeToString(source.machine_type)]
                     ELSE [pc EXCEPT !.step = "types", !.architecture = "Amd64"]
            /\ UNCHANGED <<source, written, created>>
    /\ UNCHANGED notCreate

\* Symbols::parse(address_map, symbol_table.iter())?, or
\* Symbols::parse(&systemmap)?.
CreateSymbols ==
    /\ pc.step = "symbols"
    /\ LET symbols == IF source.format = "pdb"
                      THEN pdb_symbols_parse(<<>>, source.address_map, source.symbols)
                      ELSE symbols_parse(source.systemmap)
       IN  IF symbols.tag = "Err" THEN Fail(symbols.error)
           ELSE /\ pc' = [pc EXCEPT !.symbols = symbols.value,
                                    !.step = IF source.format = "pdb"
                                             THEN "types" ELSE "serialize"]
                /\ UNCHANGED <<source, written, created>>
    /\ UNCHANGED notCreate

\* Types::parse(tpi.finder(), tpi.iter())?, or the loop of types.add.
CreateTypes ==
    /\ pc.step = "types"
    /\ LET types == IF source.format = "pdb"
                    THEN pdb_types_parse(TypesDefault, source.stream,
                                         Len(PdbPrimitives) + 1)
                    ELSE Ok(dwarf_types_add(TypesDefault, {}, source.units))
       IN  IF types.tag = "Err" THEN Fail(types.error)
           ELSE /\ pc' = [pc EXCEPT !.types = types.value,
                                    !.step = IF source.format = "pdb"
                                             THEN "serialize" ELSE "symbols"]
                /\ UNCHANGED <<source, written, created>>
    /\ UNCHANGED notCreate

\* Profile::new and serialize(&profile).map_err(Error::Serialize)?; Ok(()).
CreateSerialize ==
    /\ pc.step = "serialize"
    /\ written' = Append(written, ProfileNew(pc.architecture, pc.symbols, pc.types))
    /\ created' = IF source.accepts THEN Ok("()") ELSE Err("Serialize")
    /\ pc' = [pc EXCEPT !.step = "done"]
    /\ UNCHANGED source
    /\ UNCHANGED notCreate

-----------------------------------------------------------------------------
(* The sources ingested: PDB files and kernel images with their System.map, *)
(* unreadable or readable, with records of every anomalous kind, and a     *)
(* callback that accepts the profile or fails.                             *)

\* The public symbol a; a procedure symbol; a public symbol whose name is no
\* valid UTF-8; one in a section the address map does not hold; the public
\* symbol d.  The second list ends with a symbol the reader rejects.
PdbSymbolLists ==
    LET listed == <<Public(RawString("a", TRUE), [section |-> 1, offset |-> 16]),
                    ProcedureSymbol,
                    Public(RawString("b", FALSE), [section |-> 1, offset |-> 32]),
                    Public(RawString("c", TRUE), [section |-> 9, offset |-> 0]),
                    Public(RawString("d", TRUE), [section |-> 2, offset |-> 4])>>
    IN  {<<>>, listed, listed \o <<UnparsedSymbol>>}

PdbStreams ==
    {TypeStream([tag |-> "class", name |-> "T", members |-> 2], d2,
                naming, paged, damaged) :
        d2 \in {[tag |-> "enum", name |-> "<unnamed-tag>", members |-> 1],
                [tag |-> "union", name |-> "T", members |-> 3]},
        naming \in {"distinct", "lossy"}, paged \in BOOLEAN, damaged \in BOOLEAN}

PdbSources ==
    [format : {"pdb"}, intact : BOOLEAN,
     machine_type : {"MachineType::Amd64", "MachineType::X86"},
     address_map : {<<4096, 8192>>},
     symbols : PdbSymbolLists, stream : PdbStreams, accepts : BOOLEAN]

\* A struct without byte size and an enumeration without underlying type,
\* named or anonymous, in two units; System.maps the parser accepts and
\* rejects.
DwarfImages ==
    {Image("two_units",
           [tag |-> "structure_type", members |-> 2, site |-> 1, typed |-> TRUE,
            named |-> named, sized |-> sized],
           [tag |-> "enumeration_type", members |-> 1, site |-> 0,
            typed |-> typed, named |-> named, sized |-> sized]) :
        named \in BOOLEAN, sized \in BOOLEAN, typed \in BOOLEAN}

DwarfSystemMaps ==
    {Unlines(<<<<"1", "0", " ", "T", " ", "a">>, <<"3", "0", " ", "b", " ", "c">>,
               <<"2", "f", " ", "D", " ", "b">>>>, TRUE),
     Unlines(<<<<"1", "0", " ", "T", " ", "a">>, <<"1", "0", " ", "T">>>>, TRUE),
     Unlines(<<<<"z", "z", " ", "T", " ", "a">>>>, FALSE)}

DwarfSources ==
    [format : {"dwarf"}, intact : BOOLEAN, units : DwarfImages,
     systemmap : DwarfSystemMaps, accepts : BOOLEAN]

InitCreate ==
    /\ NoResolve
    /\ NoBitfield
    /\ NoDwarf
    /\ NoPdb
    /\ NoSystemMap
    /\ NoMacro
    /\ NoCache
    /\ source \in PdbSources \cup DwarfSources
    /\ pc = [step |-> "open", architecture |-> None, symbols |-> None, types |-> None]
    /\ written = <<>>
    /\ created = Pending

NextCreate == CreateOpen \/ CreateSymbols \/ CreateTypes \/ CreateSerialize

SpecCreate == InitCreate /\ [][NextCreate]_vars

-----------------------------------------------------------------------------
(* Properties of create_profile.                                           *)

\* The profile of the whole source: every symbol and every type of it.
FullProfile(src) ==
    IF src.format = "pdb"
    THEN ProfileNew(MachineTypeToString(src.machine_type),
                    pdb_symbols_parse(<<>>, src.address_map, src.symbols).value,
                    pdb_types_parse(TypesDefault, src.stream,
                                    Len(PdbPrimitives) + 1).value)
    ELSE ProfileNew("Amd64", symbols_parse(src.systemmap).value,
                    dwarf_types_add(TypesDefault, {}, src.units))

\* The source has no structural error: the file opens, the reader parses
\* every record of it, the System.map is one the parser accepts.
Sound(src) ==
    /\ src.intact
    /\ src.format = "pdb" =>
        /\ \A i \in 1..Len(src.symbols) : src.symbols[i].data /= "Unparsed"
        /\ \A i \in 1..Len(src.stream) : src.stream[i].data /= "Unparsed"
    /\ src.format = "dwarf" => symbols_parse(src.systemmap).tag = "Ok"

-----------------------------------------------------------------------------
(* The structs declared with symbols! and offsets!, and their new().       *)

SymbolMember(fname, isr_attr, optional) ==
    [fname |-> fname, attr |-> isr_attr, optional |-> optional]
FieldMember(fname, isr_attr, target, optional) ==
    [fname |-> fname, attr |-> isr_attr, target |-> target, optional |-> optional]
InnerStruct(iname, isr_attr, members) ==
    [iname |-> iname, attr |-> isr_attr, members |-> members]

\* Symbols "sym_a" and "sym_b" are in the profile, "sym_q" and "sym_z" are not.
SymbolMembers ==
    {SymbolMember("sym_a", NoAttr, FALSE),
     SymbolMember("sym_q", NoAttr, FALSE),
     SymbolMember("sym_q", NoAttr, TRUE),
     SymbolMember("sym_q", Alias(<<"sym_b">>), FALSE),
     SymbolMember("sym_z", Alias(<<"sym_q", "sym_b", "sym_a">>), FALSE),
     SymbolMember("sym_z", Alias(<<"sym_q">>), FALSE),
     SymbolMember("sym_z", Alias(<<"sym_q">>), TRUE),
     SymbolMember("sym_b", Alias(<<"sym_a">>), TRUE),
     SymbolMember("sym_a", Override(<<"sym_q">>), FALSE),
     SymbolMember("sym_z", Override(<<"sym_q", "sym_b">>), TRUE)}

\* Fields "f", "g" and "h" occur in the profile's structs, "q" in none.
FieldMembers ==
    {FieldMember("f", NoAttr, "Field", FALSE),
     FieldMember("f", NoAttr, "Bitfield", TRUE),
     FieldMember("q", NoAttr, "Field", FALSE),
     FieldMember("q", Alias(<<"g", "f">>), "u64", FALSE),
     FieldMember("q", Alias(<<"h", "f">>), "Field", TRUE)}

\* The members of one struct: at most MaxMembersDeclared, of distinct names.
MemberLists(members, least) ==
    {s \in UNION {[1..k -> members] : k \in least..MaxMembersDeclared} :
        \A i, j \in 1..Len(s) : i /= j => s[i].fname /= s[j].fname}

\* Structs "A", "B" and "C" are in the profile, "Z" is not.
StructHeads ==
    {<<"A", NoAttr>>, <<"C", NoAttr>>, <<"Z", NoAttr>>,
     <<"Z", Alias(<<"Z", "C", "A">>)>>}

InnerStructs ==
    {InnerStruct(h[1], h[2], m) :
        h \in StructHeads, m \in MemberLists(FieldMembers, 0)}

\* symbols! takes one struct of at least one member; offsets! one inner
\* struct or more. A second inner struct here has no members.
Declarations ==
    {[macro |-> "symbols", members |-> m] : m \in MemberLists(SymbolMembers, 1)}
    \cup {[macro |-> "offsets", structs |-> <<s>>] : s \in InnerStructs}
    \cup {[macro |-> "offsets",
           structs |-> <<InnerStruct("A", NoAttr, m), InnerStruct("Y", Alias(<<y>>), <<>>)>>] :
            m \in MemberLists(FieldMembers, 0), y \in {"B", "Z"}}

\* The profiles a declaration is resolved against. Every profile has the
\* same symbol table, so symbols! is resolved against those without fields.
\* offsets! of struct "C" alone is resolved against the profiles in which C
\* has no declared size (size 0) and A no fields.
ProfilesFor(decl) ==
    CASE decl.macro = "symbols" ->
            {p \in Profiles : \A n \in DOMAIN p.structs : p.structs[n].fields = <<>>}
      [] decl.macro = "offsets" /\ decl.structs[1].iname = "C" ->
            {[p EXCEPT !.structs["C"].size = 0] :
                p \in {q \in Profiles : q.structs["A"].fields = <<>>}}
      [] OTHER -> Profiles

SymbolsNew ==
    /\ declared.macro = "symbols"
    /\ generated = Pending
    /\ generated' = symbols_new(profile, declared.members)
    /\ UNCHANGED <<declared, resolveVars>>
    /\ UNCHANGED notMacro

OffsetsNew ==
    /\ declared.macro = "offsets"
    /\ generated = Pending
    /\ generated' = offsets_new(profile, declared.structs)
    /\ UNCHANGED <<declared, resolveVars>>
    /\ UNCHANGED notMacro

InitMacro ==
    /\ declared \in Declarations
    /\ profile \in ProfilesFor(declared)
    /\ op = [name |-> "none"]
    /\ stack = <<>>
    /\ outcome = Pending
    /\ converted = Pending
    /\ generated = Pending
    /\ NoBitfield
    /\ NoNormalizer
    /\ NoCache

NextMacro == SymbolsNew \/ OffsetsNew

SpecMacro == InitMacro /\ [][NextMacro]_vars

-----------------------------------------------------------------------------
(* What new() is to produce, stated from the declaration and the profile.  *)

\* The names a member or structure is looked up under, in order: its own
\* name and then its aliases, or its overrides alone.
NamesOf(fname, isr_attr) ==
    IF isr_attr.form = "override" THEN isr_attr.names ELSE <<fname>> \o isr_attr.names

SymbolFound(sname) == sname \in DOMAIN profile.symbols
StructFound(tname) == tname \in DOMAIN profile.structs
FieldFound(tname, mname) ==
    /\ StructFound(tname)
    /\ find_field_descriptor(profile, tname, mname).tag = "Ok"

\* The declaration as the items new() resolves, in declaration order: each
\* symbol; each structure followed by its members.
RECURSIVE StructItems(_)
StructItems(structs) ==
    IF structs = <<>>
    THEN <<>>
    ELSE LET s == Head(structs) IN
         <<[item |-> "struct", names |-> NamesOf(s.iname, s.attr)]>>
         \o [i \in 1..Len(s.members) |->
                [item |-> "field", owner |-> NamesOf(s.iname, s.attr),
                 names |-> NamesOf(s.members[i].fname, s.members[i].attr),
                 target |-> s.members[i].target,
                 optional |-> s.members[i].optional]]
         \o StructItems(Tail(structs))

Items ==
    CASE declared.macro = "symbols" ->
            [i \in 1..Len(declared.members) |->
                [item |-> "symbol",
                 names |-> NamesOf(declared.members[i].fname, declared.members[i].attr),
                 optional |-> declared.members[i].optional]]
      [] declared.macro = "offsets" -> StructItems(declared.structs)
      [] OTHER -> <<>>

\* The position in `names` of the first name found, 0 when none is.
FirstFound(names, found) ==
    IF found = {} THEN 0 ELSE CHOOSE i \in found : \A j \in found : i <= j

FirstStruct(names) ==
    FirstFound(names, {i \in 1..Len(names) : StructFound(names[i])})
FirstSymbol(names) ==
    FirstFound(names, {i \in 1..Len(names) : SymbolFound(names[i])})
FirstField(owner, names) ==
    IF FirstStruct(owner) = 0
    THEN 0
    ELSE FirstFound(names, {i \in 1..Len(names) :
                                FieldFound(owner[FirstStruct(owner)], names[i])})

\* The index among the item's names of the first one found, 0 when none is.
FirstName(it) ==
    CASE it.item = "symbol" -> FirstSymbol(it.names)
      [] it.item = "struct" -> FirstStruct(it.names)
      [] it.item = "field" -> FirstField(it.owner, it.names)

\* The descriptor of a member found.
DescriptorOf(it) ==
    find_field_descriptor(profile, it.owner[FirstStruct(it.owner)],
                          it.names[FirstName(it)]).value

\* A structure or a non-optional member found under none of its names.
Missing(it) ==
    /\ FirstName(it) = 0
    /\ it.item = "struct" \/ ~it.optional

\* A member found as a field where a bitfield is declared, or the reverse.
Mismatched(it) ==
    /\ it.item = "field"
    /\ FirstName(it) /= 0
    /\ it.target /= "u64"
    /\ DescriptorOf(it).kind /= it.target

NotFoundKinds == {"SymbolNotFound", "TypeNotFound", "FieldNotFound"}
Returned == generated.tag \in {"Ok", "Err"}


\* The values of a returned struct in the order of Items: for offsets! the
\* name each structure was found under, then its members.
RECURSIVE InnerValues(_)
InnerValues(values) ==
    IF values = <<>>
    THEN <<>>
    ELSE <<Head(values).name>> \o Head(values).fields \o InnerValues(Tail(values))

Values ==
    IF declared.macro = "symbols" THEN generated.value ELSE InnerValues(generated.value)

\* What an item is to hold: the value under the first of its names found,
\* None for an optional member found under none.
Resolved(it) ==
    CASE it.item = "symbol" -> profile.symbols[it.names[FirstName(it)]]
      [] it.item = "struct" -> it.names[FirstName(it)]
      [] it.item = "field" ->
            IF it.target = "u64" THEN DescriptorOf(it).offset ELSE DescriptorOf(it)

Expected(it) ==
    IF it.item = "struct" \/ ~it.optional
    THEN Resolved(it)
    ELSE IF FirstName(it) = 0 THEN None ELSE Some(Resolved(it))

FirstNameWins ==
    generated.tag = "Ok" =>
        /\ Len(Values) = Len(Items)
        /\ \A i \in 1..Len(Items) : Values[i] = Expected(Items[i])

\* The first item in declaration order that new() cannot produce, 0 when
\* there is none.
FirstFailing ==
    FirstFound(Items, {i \in 1..Len(Items) : Missing(Items[i]) \/ Mismatched(Items[i])})

\* C20: a returned new() holds, for every declared member, the value under
\* the first found of its own name and then its aliases in the listed order,
\* and None for an Option member found under none; and new() fails with a
\* not-found error if and only if a declared structure or a non-optional
\* member is found under none of its names.
C20_NotFoundIffMissing ==
    Returned =>
        /\ FirstNameWins
        /\ (generated.tag = "Err" /\ generated.error.kind \in NotFoundKinds)
            <=> \E i \in 1..Len(Items) : Missing(Items[i])

\* C20, amended: a returned new() holds, for every declared member, the
\* value under the first found of its own name and then its aliases in the
\* listed order, and None for an Option member found under none; new() fails
\* if and only if some declared structure or non-optional member is found
\* under none of its names or some member is found with the other shape
\* (field for bitfield), and its error is that of the first such item in
\* declaration order: not-found for a missing one, conversion for a
\* mismatched one.
C20_FirstFailureDecides ==
    Returned =>
        /\ FirstNameWins
        /\ generated.tag = "Err" <=> FirstFailing /= 0
        /\ generated.tag = "Err" =>
            IF Missing(Items[FirstFailing])
            THEN generated.error.kind \in NotFoundKinds
            ELSE generated.error.kind = "Conversion"

\* C20 witness: offsets! new() returned not-found for a missing non-optional
\* member declared after a member found under an alias, not its own name.
C20_Witness ==
    /\ declared.macro = "offsets"
    /\ generated.tag = "Err"
    /\ generated.error.kind = "FieldNotFound"
    /\ FirstFailing /= 0
    /\ Items[FirstFailing].item = "field"
    /\ \E j \in 1..(FirstFailing - 1) :
        /\ Items[j].item = "field"
        /\ FirstName(Items[j]) >= 2


\* offsets.rs lines 412-428: the methods of a generated inner struct.
offsets_is_empty(self) == self.len = 0
offsets_len(self) == self.len
offsets_effective_len(self) == self.effective_len

\* The i-th inner struct declared, its members as items, and the ends
\* (offset + size) of those found in the profile.
InnerItems(i) ==
    LET s == declared.structs[i] IN
    [j \in 1..Len(s.members) |->
        [item |-> "field", owner |-> NamesOf(s.iname, s.attr),
         names |-> NamesOf(s.members[j].fname, s.members[j].attr),
         target |-> s.members[j].target,
         optional |-> s.members[j].optional]]
EndsFound(i) ==
    {DescriptorOf(InnerItems(i)[j]).offset + DescriptorOf(InnerItems(i)[j]).size :
        j \in {k \in 1..Len(InnerItems(i)) : FirstName(InnerItems(i)[k]) /= 0}}
Largest(ends) ==
    IF ends = {} THEN 0 ELSE CHOOSE e \in ends : \A other \in ends : other <= e

\* The i-th inner struct with its members declared in every other order.
Reordered(i) ==
    LET s == declared.structs[i] IN
    {[s EXCEPT !.members = [j \in 1..Len(s.members) |-> s.members[order[j]]]] :
        order \in Permutations(1..Len(s.members))}

-----------------------------------------------------------------------------
(* isr-dwarf: images whose structs hold references to the definitions of   *)
(* their unit.                                                             *)

\* What a referenced definition is made of: its tag, whether it has the name
\* "S" or none, its declaration site, for an enumeration whether the
\* producer gave it an underlying type.
Referenced ==
    [tag : {"structure_type", "union_type"}, named : BOOLEAN,
     site : DeclSites, typed : {TRUE}]
    \cup
    [tag : {"enumeration_type"}, named : BOOLEAN,
     site : DeclSites, typed : BOOLEAN]

\* How the holder's member refers to the definition: directly, through a
\* pointer, as the element of an array, or (an enumeration) as a bit-field.
Wrappers == {"direct", "pointer", "array", "bitfield"}

\* The definition at base + 64: an enumeration of one enumerator, or a struct
\* or union without members.
ReferencedDie(base, d) ==
    DefinitionDie(base, base + 64,
                  [tag |-> d.tag, members |-> IF d.tag = "enumeration_type" THEN 1 ELSE 0,
                   site |-> d.site, typed |-> d.typed, named |-> d.named,
                   sized |-> TRUE])

\* struct H<k> { <definition> r; } declared at a site of its own, the member
\* referring to the definition at base + 64 directly or through the pointer
\* at base + 8 or the array at base + 9.
HolderDie(base, k, wrapper) ==
    Die("structure_type", base + 80,
        [name |-> "H" \o Hex(k), byte_size |-> 16,
         decl_file |-> 3, decl_line |-> 20 + k, decl_column |-> 1],
        <<Die("member", base + 81,
              [name |-> "r", data_member_location |-> 0,
               type |-> CASE wrapper = "pointer" -> base + 8
                          [] wrapper = "array" -> base + 9
                          [] OTHER -> base + 64]
                @@ (IF wrapper = "bitfield"
                    THEN [bit_size |-> 3, data_bit_offset |-> 2] ELSE <<>>),
              <<>>)>>)

\* The k-th unit: the entries every unit carries, the definition, a pointer
\* to it, an array of it, and the struct holding the reference.
HolderUnit(k, d, wrapper) ==
    LET base == 256 * (k - 1) IN
    Unit(Files,
         TypeEntries(base)
            \o <<ReferencedDie(base, d),
                 Die("pointer_type", base + 8, [byte_size |-> 8, type |-> base + 64], <<>>),
                 Die("array_type", base + 9, [type |-> base + 64],
                     <<Die("subrange_type", base + 10, [count |-> 2], <<>>)>>),
                 HolderDie(base, k, wrapper)>>)

InitDwarfRefs ==
    /\ profile = NoProfile
    /\ op = [name |-> "none"]
    /\ stack = <<>>
    /\ outcome = Pending
    /\ converted = Pending
    /\ NoBitfield
    /\ NoPdb
    /\ NoSystemMap
    /\ NoCreate
    /\ NoMacro
    /\ NoCache
    /\ \E d1, d2 \in Referenced, w1, w2 \in Wrappers :
        /\ w1 = "bitfield" => d1.tag = "enumeration_type"
        /\ w2 = "bitfield" => d2.tag = "enumeration_type"
        /\ dwarf_units = [b \in Builds |->
                            IF b = "forward"
                            THEN <<HolderUnit(1, d1, w1), HolderUnit(2, d2, w2)>>
                            ELSE <<HolderUnit(2, d2, w2), HolderUnit(1, d1, w1)>>]
    /\ unit_idx = [b \in Builds |-> 0]
    /\ dwarf_types = [b \in Builds |-> TypesDefault]
    /\ dwarf_cache = [b \in Builds |-> {}]
    /\ reingested = [b \in Builds |-> 0]

NextDwarfRefs == \E b \in Builds : TypesAdd(b)

SpecDwarfRefs == InitDwarfRefs /\ [][NextDwarfRefs]_vars

\* The Struct or Enum reference a type ends at under its array, pointer and
\* bitfield wrappers, or the type itself.
RECURSIVE ReferenceOf(_)
ReferenceOf(type_) ==
    IF type_.kind \in {"Array", "Pointer", "Bitfield"}
    THEN ReferenceOf(type_.subtype)
    ELSE type_

\* Every Struct or Enum reference held by a field of a registered struct
\* names an entry of the corresponding collection.
ReferencesResolve(types) ==
    \A s \in DOMAIN types.structs : \A i \in 1..Len(types.structs[s].fields) :
        LET leaf == ReferenceOf(types.structs[s].fields[i].type_) IN
        /\ leaf.kind = "Struct" => leaf.name \in DOMAIN types.structs
        /\ leaf.kind = "Enum" => leaf.name \in DOMAIN types.enums

\* C23: once every unit of an image is ingested, each referenced structure,
\* union and enumeration having a non-declaration definition in its unit,
\* every Struct or Enum reference held by a registered struct field, directly
\* or under array, pointer or bitfield wrappers, names an entry of the
\* corresponding collection, anonymous types declared at one site in two
\* units included.
C23_DwarfReferencesResolve ==
    \A b \in DOMAIN dwarf_units :
        unit_idx[b] = Len(dwarf_units[b]) => ReferencesResolve(dwarf_types[b])

-----------------------------------------------------------------------------
(* isr-pdb: type streams whose struct holds a reference to a definition of *)
(* the stream.                                                             *)

\* The referenced definition: its tag and its name.
PdbReferenced ==
    [tag : {"enum", "class", "union"}, name : {"T", "<unnamed-tag>"}]

\* The record of the referenced definition, complete or a forward reference;
\* its field list is the record at index 6.
PdbReferencedRecord(d, forward_reference) ==
    CASE d.tag = "enum" ->
            Enumeration(RawString(d.name, TRUE), 1, 6, forward_reference)
      [] d.tag = "class" ->
            Class("Struct", RawString(d.name, TRUE),
                  IF forward_reference THEN 0 ELSE 16,
                  IF forward_reference THEN None ELSE Some(6),
                  forward_reference)
      [] OTHER ->
            Union(RawString(d.name, TRUE),
                  IF forward_reference THEN 0 ELSE 16, 6, forward_reference)

\* The stream: the forward reference of the definition at index 5, its field
\* list, the definition at 7; a pointer to, an array of and a bit-field of
\* the record at `target` (5 or 7); and struct H { <definition> r; }, the
\* member referring to `target` directly or through one of the three.
HolderStream(d, target, wrapper) ==
    PdbPrimitives
        \o <<PdbReferencedRecord(d, TRUE),
             FieldList(<<IF d.tag = "enum"
                         THEN Enumerate(RawString("e1", TRUE), Variant("I32", 1))
                         ELSE Member(RawString("m1", TRUE), 0, 1)>>, None),
             PdbReferencedRecord(d, FALSE),
             Pointer(target),
             Array(target, <<2>>),
             Bitfield(target, 3, 2),
             FieldList(<<Member(RawString("r", TRUE), 0,
                                CASE wrapper = "pointer" -> 8
                                  [] wrapper = "array" -> 9
                                  [] wrapper = "bitfield" -> 10
                                  [] OTHER -> target)>>, None),
             Class("Struct", RawString("H", TRUE), 16, Some(11), FALSE)>>

InitPdbRefs ==
    /\ NoResolve
    /\ NoBitfield
    /\ NoDwarf
    /\ NoSystemMap
    /\ NoCreate
    /\ NoMacro
    /\ NoCache
    /\ \E d \in PdbReferenced, target \in {5, 7}, wrapper \in Wrappers :
        /\ wrapper = "bitfield" => d.tag = "enum"
        /\ tpi = HolderStream(d, target, wrapper)
    /\ type_iter = Len(PdbPrimitives)
    /\ pdb_types = TypesDefault

NextPdbRefs == TypesParseNext

SpecPdbRefs == InitPdbRefs /\ [][NextPdbRefs]_vars

\* C24: once a type stream is parsed, each referenced enum, class and union
\* having a complete definition in it, every Struct or Enum reference held by
\* a registered field names an entry of the corresponding collection, whether
\* the field's type index is that of the complete definition or of its
\* forward reference, and whether the type is named or anonymous.
C24_PdbReferencesResolve ==
    (Parsing /\ type_iter = Len(tpi)) => ReferencesResolve(pdb_types)

-----------------------------------------------------------------------------
(* The translation of members, base types and arrays: one unit holding     *)
(* struct T { <type> m; } whose member, or the base type or the array the  *)
(* member refers to, takes every shape below.                              *)

MaxSubranges == 2

Encodings ==
    {"boolean", "signed", "signed_char", "unsigned", "unsigned_char", "float",
     "address", "UTF", "complex_float"}

\* How the member is located and whether it has a bit size and a type.
MemberShapes ==
    {shape \in [family : {"member"},
                form : {"absent", "udata", "exprloc"},
                location : {0, 4},
                bit_offset : {None, Some(0), Some(3), Some(13), Some(37)},
                bit_size : {None, Some(1), Some(5)},
                typed : BOOLEAN] :
        shape.form = "absent" => shape.location = 0}

BaseShapes ==
    [family : {"base"},
     byte_size : {None} \cup {Some(n) : n \in {0, 1, 2, 3, 4, 8, 16, 32}},
     encoding : {None} \cup {Some(e) : e \in Encodings}]

\* A child of the array entry: a subrange with or without a count and an
\* upper bound, or an entry of another tag.
ChildShapes ==
    [tag : {"subrange_type"},
     count : {None, Some(0), Some(3)},
     upper_bound : {None, Some(0), Some(4)}]
    \cup [tag : {"enumeration_type"}, count : {Some(3)}, upper_bound : {None}]

ArrayShapes ==
    [family : {"array"},
     children : UNION {[1..n -> ChildShapes] : n \in 0..MaxSubranges}]

Shapes == MemberShapes \cup BaseShapes \cup ArrayShapes

\* The attribute `at` when the option holds a value.
Optional(at, option) ==
    IF option = None THEN <<>> ELSE [a \in {at} |-> option.value]

ShapedBase(shape) ==
    Die("base_type", 16,
        [name |-> "b"]
            @@ (IF shape.family = "base"
                THEN Optional("byte_size", shape.byte_size)
                        @@ Optional("encoding", shape.encoding)
                ELSE [byte_size |-> 4, encoding |-> "signed"]),
        <<>>)

ShapedArray(shape) ==
    Die("array_type", 32, [type |-> 16],
        IF shape.family /= "array" THEN <<>>
        ELSE [i \in 1..Len(shape.children) |->
                Die(shape.children[i].tag, 32 + i,
                    Optional("count", shape.children[i].count)
                        @@ Optional("upper_bound", shape.children[i].upper_bound),
                    <<>>)])

ShapedMember(shape) ==
    Die("member", 81,
        [name |-> "m"]
            @@ (CASE shape.family = "base" ->
                        [data_member_location |-> 0, type |-> 16]
                  [] shape.family = "array" ->
                        [data_member_location |-> 0, type |-> 32]
                  [] OTHER ->
                        (IF shape.form = "absent" THEN <<>>
                         ELSE [data_member_location |-> shape.location,
                               forms |-> [data_member_location |-> shape.form]])
                            @@ Optional("data_bit_offset", shape.bit_offset)
                            @@ Optional("bit_size", shape.bit_size)
                            @@ (IF shape.typed THEN [type |-> 16] ELSE <<>>)),
        <<>>)

ShapedUnit(shape) ==
    Unit(Files,
         <<ShapedBase(shape), ShapedArray(shape),
           Die("structure_type", 80,
               [name |-> "T", byte_size |-> 16,
                decl_file |-> 3, decl_line |-> 20, decl_column |-> 1],
               <<ShapedMember(shape)>>)>>)

InitDwarfShapes ==
    /\ NoResolve
    /\ NoBitfield
    /\ NoPdb
    /\ NoSystemMap
    /\ NoCreate
    /\ NoMacro
    /\ NoCache
    /\ \E shape \in Shapes :
        dwarf_units = [b \in Builds |-> <<ShapedUnit(shape)>>]
    /\ unit_idx = [b \in Builds |-> 0]
    /\ dwarf_types = [b \in Builds |-> TypesDefault]
    /\ dwarf_cache = [b \in Builds |-> {}]
    /\ reingested = [b \in Builds |-> 0]

NextDwarfShapes == \E b \in Builds : TypesAdd(b)

SpecDwarfShapes == InitDwarfShapes /\ [][NextDwarfShapes]_vars

\* The member entry of struct T in the unit of build b, the entry it refers
\* to, and the field it became.
MemberOf(b) == dwarf_units[b][1].entries[3].children[1]
TranslatedField(b) == dwarf_types[b].structs["T"].fields[1]
Translated(b) == unit_idx[b] = 1

\* C27: the byte offset of a member is its byte-location attribute if it has
\* one, otherwise its bit-offset attribute divided by 8 rounded down,
\* otherwise 0; a member with a bit-size attribute becomes a Bitfield whose
\* bit_length is the bit size and whose bit_position is the bit offset modulo
\* 8, so that for a member located only by a bit offset offset * 8 +
\* bit_position is that bit offset.
C27_MemberOffsetAndBitfield ==
    \A b \in Builds : Translated(b) =>
        LET attrs == MemberOf(b).attrs
            field == TranslatedField(b)
        IN  /\ field.offset =
                    IF "data_member_location" \in DOMAIN attrs
                    THEN attrs["data_member_location"]
                    ELSE IF "data_bit_offset" \in DOMAIN attrs
                         THEN attrs["data_bit_offset"] \div 8
                         ELSE 0
            /\ "bit_size" \in DOMAIN attrs =>
                    /\ field.type_.kind = "Bitfield"
                    /\ field.type_.bit_length = attrs["bit_size"]
                    /\ "data_bit_offset" \in DOMAIN attrs =>
                            /\ field.type_.bit_position = attrs["data_bit_offset"] % 8
                            /\ "data_member_location" \notin DOMAIN attrs =>
                                    field.offset * 8 + field.type_.bit_position
                                        = attrs["data_bit_offset"]

\* The base type entry of the unit and the Base the member's type ends at.
BaseOf(b) == dwarf_units[b][1].entries[1]
TranslatedBase(b) == ReferenceOf(TranslatedField(b).type_).subkind

\* The kind an encoding stands for, the widths the kind is supported in and
\* the Base variant of a kind and a width.
KindOf(entry) ==
    IF "encoding" \notin DOMAIN entry.attrs THEN "U"
    ELSE CASE entry.attrs["encoding"] = "boolean" -> "Bool"
           [] entry.attrs["encoding"] \in {"signed", "signed_char"} -> "I"
           [] entry.attrs["encoding"] \in {"unsigned", "unsigned_char"} -> "U"
           [] entry.attrs["encoding"] = "float" -> "F"
           [] OTHER -> "U"
SupportedWidths(kind) ==
    CASE kind = "Bool" -> {1}
      [] kind = "F" -> {4, 8}
      [] OTHER -> {1, 2, 4, 8, 16}
VariantOf(kind, n) ==
    IF kind = "Bool" THEN "Bool"
    ELSE kind \o (CASE n = 1 -> "8" [] n = 2 -> "16" [] n = 4 -> "32"
                    [] n = 8 -> "64" [] n = 16 -> "128")

\* C28: a base type of byte size n with boolean, signed, unsigned or float
\* encoding maps to the Base variant of that kind and width, an unknown or
\* missing encoding to the unsigned integer of n bytes, and a zero, missing
\* or unsupported byte size (any but 1 for a boolean, 4 and 8 for a float,
\* 1, 2, 4, 8 and 16 for an integer) to Void; whenever the result is not Void
\* its size is n.
C28_BaseTypeMapping ==
    \A b \in Builds : (Translated(b) /\ "type" \in DOMAIN MemberOf(b).attrs) =>
        LET entry == BaseOf(b)
            kind == KindOf(entry)
            result == TranslatedBase(b)
        IN  /\ result =
                    IF "byte_size" \notin DOMAIN entry.attrs THEN "Void"
                    ELSE IF entry.attrs["byte_size"] \notin SupportedWidths(kind)
                         THEN "Void"
                         ELSE VariantOf(kind, entry.attrs["byte_size"])
            /\ result /= "Void" => base_size(result) = entry.attrs["byte_size"]

\* C28: a base type of two bytes without a known encoding has been translated
\* to the unsigned integer of two bytes, and one of eight bytes with the float
\* encoding to F64.
C28_Witness ==
    /\ Translated("forward")
    /\ "type" \in DOMAIN MemberOf("forward").attrs
    /\ "byte_size" \in DOMAIN BaseOf("forward").attrs
    /\ \/ /\ BaseOf("forward").attrs["byte_size"] = 2
          /\ KindOf(BaseOf("forward")) = "U"
          /\ "encoding" \in DOMAIN BaseOf("forward").attrs
          /\ BaseOf("forward").attrs["encoding"] = "address"
          /\ TranslatedBase("forward") = "U16"
       \/ /\ BaseOf("forward").attrs["byte_size"] = 8
          /\ KindOf(BaseOf("forward")) = "F"
          /\ TranslatedBase("forward") = "F64"

\* The array entry of the unit, its subrange children and the extent the
\* attributes of one give.
ArrayOf(b) == dwarf_units[b][1].entries[2]
Subranges(entry) == SelectSeq(entry.children, LAMBDA c : c.tag = "subrange_type")
ExtentOf(child) ==
    IF "count" \in DOMAIN child.attrs THEN child.attrs["count"]
    ELSE IF "upper_bound" \in DOMAIN child.attrs
         THEN child.attrs["upper_bound"] + 1
         ELSE 0
RefersToArray(b) ==
    /\ "type" \in DOMAIN MemberOf(b).attrs
    /\ MemberOf(b).attrs["type"] = ArrayOf(b).offset

-----------------------------------------------------------------------------
(* The profile cache (isr-cache): entry_from_codeview and                  *)
(* entry_from_linux_banner on the directory of one key.  A file is absent, *)
(* empty (created, nothing written), partial (a write was begun and not    *)
(* completed) or complete.  The downloaders write in place with            *)
(* File::create and copy_to, the codec writes into the file that           *)
(* File::create_new created, and nothing in the crate removes a file.      *)

Callers == {1, 2}
FileStates == {"absent", "empty", "partial", "complete"}
Flavours == {"codeview", "linux_banner"}

\* The file whose existence decides whether a download is made: the PDB
\* itself, or the .deb archives the kernel files are extracted from.
DownloadTarget(cache) ==
    IF cache.flavour = "codeview" THEN cache.input ELSE cache.archive

IdleCaller == [step |-> "idle", result |-> Pending, generates |-> FALSE]

Step(c, step) == [callers EXCEPT ![c].step = step]

Return(c, result) == [callers EXCEPT ![c].step = "done", ![c].result = result]

Writing(c) == callers[c].step \in {"open_input", "create_profile", "encode"}

\* Entry::new: File::open of the profile path, then Mmap::map of the file.
\* Mapping a file of length zero is left to the platform: it either fails
\* or yields an empty mapping.
EntryNew(cache) ==
    CASE cache.profile = "absent" -> {Err("Io")}
      [] cache.profile = "empty" -> {Err("Io"), Ok([data |-> "empty"])}
      [] OTHER -> {Ok([data |-> cache.profile])}

\* A call begins: the banner is parsed (linux), the destination directory
\* is created.
CacheBegin(c) ==
    /\ callers[c].step = "idle"
    /\ \/ callers' = [callers EXCEPT ![c] =
                        [step |-> "exists", result |-> Pending,
                         generates |-> FALSE]]
       \/ callers' = Return(c, Err("Io"))
       \/ /\ isr_cache.flavour = "linux_banner"
          /\ callers' = Return(c, Err("InvalidBanner"))
    /\ UNCHANGED isr_cache
    /\ UNCHANGED notCache

\* A call begins while no other call is running.
CacheBeginAlone(c) ==
    /\ \A other \in Callers : callers[other].step \in {"idle", "done"}
    /\ CacheBegin(c)

\* `if !pdb_path.exists()`, `destination_path.join(..).exists()`.
CacheExists(c) ==
    /\ callers[c].step = "exists"
    /\ callers' = Step(c, IF DownloadTarget(isr_cache) = "absent"
                          THEN "download" ELSE "create_new")
    /\ UNCHANGED isr_cache
    /\ UNCHANGED notCache

\* The download is requested; on a response the output file is created
\* (truncated if it is there) and the copy begins.
CacheDownload(c) ==
    /\ callers[c].step = "download"
    /\ \/ /\ callers' = Return(c, Err("Downloader"))
          /\ UNCHANGED isr_cache
       \/ /\ callers' = Step(c, "copy_to")
          /\ isr_cache' = IF isr_cache.flavour = "codeview"
                          THEN [isr_cache EXCEPT !.input = "empty"]
                          ELSE [isr_cache EXCEPT !.archive = "empty"]
    /\ UNCHANGED notCache

\* The copy of the response (and, for linux, the extraction of the kernel
\* files from the archive) completes, or fails and leaves what it wrote.
CacheCopyTo(c) ==
    /\ callers[c].step = "copy_to"
    /\ \/ /\ callers' = Step(c, "create_new")
          /\ isr_cache' = [isr_cache EXCEPT !.input = "complete",
                                            !.archive = "complete"]
       \/ /\ callers' = Return(c, Err("Downloader"))
          /\ \/ isr_cache' = IF isr_cache.flavour = "codeview"
                             THEN [isr_cache EXCEPT !.input = "partial"]
                             ELSE [isr_cache EXCEPT !.archive = "partial"]
             \/ /\ isr_cache.flavour = "linux_banner"
                /\ isr_cache' = [isr_cache EXCEPT !.archive = "complete",
                                                  !.input = "partial"]
    /\ UNCHANGED notCache

\* `match File::create_new(&profile_path)`: the file is created only if it
\* is not there; AlreadyExists is logged and the call goes on to Entry::new.
CacheCreateNew(c) ==
    /\ callers[c].step = "create_new"
    /\ \/ /\ isr_cache.profile = "absent"
          /\ isr_cache' = [isr_cache EXCEPT !.profile = "empty"]
          /\ callers' = [callers EXCEPT ![c].step = "open_input",
                                        ![c].generates = TRUE]
       \/ /\ isr_cache.profile # "absent"
          /\ callers' = Step(c, "entry_new")
          /\ UNCHANGED isr_cache
       \/ /\ callers' = Return(c, Err("Io"))
          /\ UNCHANGED isr_cache
    /\ UNCHANGED notCache

\* `File::open(&pdb_path)?`, `File::open(..join("vmlinux-dbgsym"))?`.
CacheOpenInput(c) ==
    /\ callers[c].step = "open_input"
    /\ \/ /\ isr_cache.input # "absent"
          /\ callers' = Step(c, "create_profile")
       \/ callers' = Return(c, Err("Io"))
    /\ UNCHANGED isr_cache
    /\ UNCHANGED notCache

\* create_profile reads the input; it fails on an input that is not whole
\* and may fail on one that is; otherwise it hands the profile to C::encode.
CacheCreateProfile(c) ==
    /\ callers[c].step = "create_profile"
    /\ \/ /\ isr_cache.input = "complete"
          /\ callers' = Step(c, "encode")
          /\ isr_cache' = [isr_cache EXCEPT !.profile = "partial"]
       \/ /\ callers' = Return(c, Err("Profile"))
          /\ UNCHANGED isr_cache
    /\ UNCHANGED notCache

\* C::encode completes, or fails with the file partly written.
CacheEncode(c) ==
    /\ callers[c].step = "encode"
    /\ \/ /\ callers' = Step(c, "entry_new")
          /\ isr_cache' = [isr_cache EXCEPT !.profile = "complete"]
       \/ /\ callers' = Return(c, Err("Profile"))
          /\ UNCHANGED isr_cache
    /\ UNCHANGED notCache

\* `Entry::new(profile_path)`.
CacheEntryNew(c) ==
    /\ callers[c].step = "entry_new"
    /\ \E result \in EntryNew(isr_cache) : callers' = Return(c, result)
    /\ UNCHANGED isr_cache
    /\ UNCHANGED notCache

\* The caller takes the result; it may call again.
CacheReturn(c) ==
    /\ callers[c].step = "done"
    /\ callers' = [callers EXCEPT ![c] = IdleCaller]
    /\ UNCHANGED isr_cache
    /\ UNCHANGED notCache

CacheStep(c) ==
    \/ CacheExists(c)
    \/ CacheDownload(c)
    \/ CacheCopyTo(c)
    \/ CacheCreateNew(c)
    \/ CacheOpenInput(c)
    \/ CacheCreateProfile(c)
    \/ CacheEncode(c)
    \/ CacheEntryNew(c)
    \/ CacheReturn(c)

\* A cache directory that holds nothing for the key.
InitCache ==
    /\ isr_cache \in [flavour : Flavours, archive : {"absent"},
                      input : {"absent"}, profile : {"absent"}]
    /\ callers = [c \in Callers |-> IdleCaller]
    /\ NoResolve
    /\ NoBitfield
    /\ NoNormalizer
    /\ NoMacro

\* Calls one after another.
NextCacheSeq == \E c \in Callers : CacheBeginAlone(c) \/ CacheStep(c)

SpecCacheSeq == InitCache /\ [][NextCacheSeq]_vars

\* Calls of two callers interleaved.
NextCache == \E c \in Callers : CacheBegin(c) \/ CacheStep(c)

SpecCache == InitCache /\ [][NextCache]_vars

\* C25: every call that returns an Entry returns one whose profile file
\* holds a completely encoded profile, whatever calls failed before it.
C25_EntryHoldsCompleteProfile ==
    \A c \in Callers :
        (callers[c].step = "done" /\ callers[c].result.tag = "Ok")
            => isr_cache.profile = "complete"

\* C26: of two concurrent calls for one key exactly one generates the
\* profile, and neither returns an Entry over a profile file that the other
\* is still writing.
C26_NoEntryOverFileBeingWritten ==
    /\ Cardinality({c \in Callers : callers[c].generates}) <= 1
    /\ \A c \in Callers :
        (callers[c].step = "done" /\ callers[c].result.tag = "Ok")
            => \A other \in Callers \ {c} : ~Writing(other)

====
